---- MODULE Spec2Model ----
(***************************************************************************)
(* Model of import_export_sql: the artifact generator                      *)
(* (src/app/services/artifact_generator.py), the background tasks          *)
(* (src/app/background/tasks.py) and the creation of export, import and    *)
(* video split jobs (src/app/api, src/app/services).                       *)
(*                                                                         *)
(* Time values are Python floats (seconds).  They are represented here as  *)
(* integers counting ticks of 1/TicksPerSecond second, so that values      *)
(* below one millisecond and below one frame exist and the truncations of  *)
(* the formatters are visible.  Binary floating-point rounding is not      *)
(* represented.                                                            *)
(*                                                                         *)
(* Each routine has its own specification (SpecEdl, SpecTranscriptJson,    *)
(* SpecVtt, SpecDispatch, SpecCreateImport, SpecImport, SpecExport,        *)
(* SpecVideoSplit, SpecPrompt, ...); the variables of the other routines   *)
(* keep their idle values under it.                                        *)
(***************************************************************************)
EXTENDS Integers, Sequences, FiniteSets, TLC

VARIABLES
    pc,                \* control point of the routine being executed
    segments,          \* the "segments" list of the routine's input data
    files,             \* the export directory: path -> content written
    result,            \* what the routine returned (or that it raised)
    \* generate_events_edl / generate_insights_edl
    edl_kind,          \* "events" or "insights": which of the two generators runs
    i,                 \* enumerate(segments, start=1) position
    record_in,         \* running record timecode tracker, in ticks
    edl_lines,         \* the edits appended so far
    \* generate_transcript_json
    is_single_segment, \* the merge flag of the call
    cleaned_segments,  \* the local of that name: unbound until assigned
    \* generate_transcript_vtt
    idx,               \* the loop variable of enumerate(segments, 1): unbound before the loop
    \* process_export_background, the artifact section
    outputs,           \* work_order["outputs"] and user_inputs.llm_instructions
    transcript_data,   \* what fabric_client.get_transcript returned: None or data
    fmt_pos,           \* how many formats of the current section's loop are done
    artifacts,         \* the list of artifact records, None entries included
    error_msg,         \* the per-job list of failure messages
    calls,             \* the generator dispatches made so far, with their outcome
    \* a call of one method of ArtifactGenerator on its own
    fn,                \* the method called
    args,              \* its arguments
    \* generate_transcript_fcpxml / generate_events_fcpxml
    xml_kind,          \* "xmeml" (the transcript builder) or "fcpxml" (the events builder)
    media,             \* the environment: platform, files on disk, what ffprobe does
    xml,               \* the locals fps / frame_duration, duration, width, height
    \* the routes and the background tasks of the export, import and video split jobs
    work_order,        \* the work order a route received
    job,               \* the job row of the database (NoJob before it is stored)
    queued,            \* the tasks the route added to BackgroundTasks
    task               \* the locals of the background task

edlVars == <<edl_kind, i, record_in, edl_lines>>
tjVars == <<is_single_segment, cleaned_segments>>
vttVars == <<idx>>
pebVars == <<outputs, transcript_data, fmt_pos, artifacts, error_msg, calls>>
fnVars == <<fn, args>>
xmlVars == <<xml_kind, media, xml>>
jobVars == <<work_order, job, queued, task>>
vars == <<pc, segments, files, result, edlVars, tjVars, vttVars, pebVars, fnVars, xmlVars, jobVars>>

----------------------------------------------------------------------------
(* Bounds of the model *)

MaxSegments == 3

----------------------------------------------------------------------------
(* Values shared by the routines *)

FPS == 25
MillisPerSecond == 1000
TicksPerSecond == 10 * MillisPerSecond

Sec(n) == n * TicksPerSecond
Millis(n) == n * (TicksPerSecond \div MillisPerSecond)

None == "None"
NoFiles == [p \in {} |-> None]
NoResult == [type |-> "none", value |-> None]
Returned(path) == [type |-> "path", value |-> path]
Raised(exception) == [type |-> "raised", value |-> exception]

\* A local variable that no statement has assigned yet, and one that holds v.
Unbound == [bound |-> FALSE, value |-> <<>>]
Bound(v) == [bound |-> TRUE, value |-> v]

\* The idle values of the variables of the routines that are not running.
EdlIdle == edl_kind = None /\ i = 0 /\ record_in = 0 /\ edl_lines = <<>>
TjIdle == is_single_segment = FALSE /\ cleaned_segments = Unbound
VttIdle == idx = Unbound
FnIdle == fn = None /\ args = None
XmlIdle == xml_kind = None /\ media = None /\ xml = Unbound
PebIdle ==
    /\ outputs = None /\ transcript_data = None /\ fmt_pos = 0
    /\ artifacts = <<>> /\ error_msg = <<>> /\ calls = <<>>
NoJob == [status |-> "none"]
JobIdle == work_order = None /\ job = NoJob /\ queued = <<>> /\ task = None

\* open(filepath, "w") ... f.write(content): the file is created or replaced.
WriteFile(fs, path, content) ==
    [p \in (DOMAIN fs) \cup {path} |-> IF p = path THEN content ELSE fs[p]]

\* Python's int(x) for the quotient n/d of integers, d > 0: truncation toward zero.
PyInt(n, d) == IF n >= 0 THEN n \div d ELSE -((-n) \div d)

\* The value of a decimal digit.
DigitValue(c) == (CHOOSE k \in 1..10 : SubSeq("0123456789", k, k) = c) - 1

\* int() of a string of digits.
RECURSIVE ParseDigits(_, _)
ParseDigits(text, acc) ==
    IF text = "" THEN acc
    ELSE ParseDigits(Tail(text), 10 * acc + DigitValue(Head(text)))

\* str.split(sep): the fields of text between the separators, left to right
\* (field is the part of the current field read so far).
RECURSIVE SplitOn(_, _, _)
SplitOn(text, sep, field) ==
    IF text = "" THEN <<field>>
    ELSE IF Head(text) = sep THEN <<field>> \o SplitOn(Tail(text), sep, "")
    ELSE SplitOn(Tail(text), sep, field \o Head(text))

\* Python's f"{n:02}" / f"{n:02d}".
Fmt02(n) ==
    IF n < 0 THEN "-" \o ToString(-n)
    ELSE IF n < 10 THEN "0" \o ToString(n)
    ELSE ToString(n)

----------------------------------------------------------------------------
(* ArtifactGenerator.seconds_to_timecode *)

\* A float of seconds finer than a tick is the pair of its floor (whole
\* seconds) and its fraction in units of 0.1 microsecond.
FineTicksPerSecond == 10000000
MicrosPerSecond == 1000000

\* round() of the quotient n/d, n >= 0, halves to the even neighbour.
RoundHalfEven(n, d) ==
    LET q == n \div d
        r == n % d
    IN  IF 2 * r < d THEN q
        ELSE IF 2 * r > d THEN q + 1
        ELSE IF q % 2 = 0 THEN q ELSE q + 1

\* int(x * fps) for x = n / FineTicksPerSecond with |n| < FineTicksPerSecond
\* and fps = fps100 / 100; the product is formed in two parts to stay within
\* 32-bit integers.
FramesOf(n, fps100) ==
    LET m == IF n >= 0 THEN n ELSE -n
        f == ((m \div 100) * fps100 + ((m % 100) * fps100) \div 100) \div FineTicksPerSecond
    IN  IF n >= 0 THEN f ELSE -f

\* seconds_to_timecode on whole + frac / FineTicksPerSecond seconds.
\* timedelta(seconds=...) keeps microseconds, rounding the rest half to even,
\* and int(td.total_seconds()) truncates what it kept toward zero.
seconds_to_timecode_of(whole, frac, fps100) ==
    LET td_micros == RoundHalfEven(frac, FineTicksPerSecond \div MicrosPerSecond)
        td_seconds == IF td_micros = MicrosPerSecond THEN whole + 1 ELSE whole
        td_rest == td_micros % MicrosPerSecond
        total_seconds == IF td_seconds < 0 /\ td_rest > 0 THEN td_seconds + 1 ELSE td_seconds
        frames == FramesOf((whole - total_seconds) * FineTicksPerSecond + frac, fps100)
        hours == total_seconds \div 3600
        minutes == (total_seconds % 3600) \div 60
        secs == total_seconds % 60
    IN  Fmt02(hours) \o ":" \o Fmt02(minutes) \o ":" \o Fmt02(secs) \o ":" \o Fmt02(frames)

\* seconds_to_timecode on a number of ticks and a whole fps.
seconds_to_timecode(seconds, fps) ==
    seconds_to_timecode_of(seconds \div TicksPerSecond,
                           (seconds % TicksPerSecond) * (FineTicksPerSecond \div TicksPerSecond),
                           fps * 100)

\* _seconds_to_timecode: every component floored, no timedelta.
_seconds_to_timecode(whole, frac, fps100) ==
    LET hours == whole \div 3600
        minutes == (whole % 3600) \div 60
        secs == whole % 60
        frames == FramesOf(frac, fps100)
    IN  Fmt02(hours) \o ":" \o Fmt02(minutes) \o ":" \o Fmt02(secs) \o ":" \o Fmt02(frames)

\* What a helper method returns.
Value(v) == [type |-> "value", value |-> v]

\* A call of seconds_to_timecode or of _seconds_to_timecode.
TcCall ==
    /\ pc = "tc_call"
    /\ result' = Value(IF fn = "seconds_to_timecode"
                       THEN seconds_to_timecode_of(args.whole, args.frac, args.fps100)
                       ELSE _seconds_to_timecode(args.whole, args.frac, args.fps100))
    /\ pc' = "tc_done"
    /\ UNCHANGED <<segments, files, edlVars, tjVars, vttVars, pebVars, fnVars, xmlVars, jobVars>>

\* Seconds of [0, 86399]: whole seconds around the minute, hour and day
\* borders, fractions on and between frame borders and within a microsecond
\* of the next second; fps 24, 25, 30 and 29.97.
TcWholes == {0, 1, 59, 60, 3599, 3600, 3661, 86398, 86399}
TcFracs == {0, 1, 400000, 1600000, 2500000, 5000000, 9999994, 9999996, 9999999}
TcRates == {2400, 2500, 3000, 2997}

TcInit ==
    /\ pc = "tc_call"
    /\ fn \in {"seconds_to_timecode", "_seconds_to_timecode"}
    /\ \E w \in TcWholes, f \in TcFracs, r \in TcRates :
          /\ w = 86399 => f = 0
          /\ args = [whole |-> w, frac |-> f, fps100 |-> r]
    /\ segments = <<>>
    /\ files = NoFiles
    /\ result = NoResult
    /\ EdlIdle /\ TjIdle /\ VttIdle /\ PebIdle /\ XmlIdle /\ JobIdle

TcNext == TcCall

SpecTimecode == TcInit /\ [][TcNext]_vars

----------------------------------------------------------------------------
(* generate_events_edl and generate_insights_edl: the same loop, with the   *)
(* caption label, the directory and the returned value depending on the    *)
(* generator.                                                              *)

EdlKinds == {"events", "insights"}

EdlPath(kind) ==
    IF kind = "events" THEN "event/sdna_ai_spark_events.edl"
    ELSE "insights/sdna_ai_spark_insights.edl"

EdlIdLabel(kind) == IF kind = "events" THEN "EVENT ID" ELSE "COMMENT ID"

\* Variant of EdlDuration with the operands exchanged.
EdlDurationReversed(event) == event.start - event.end

\* duration = event["end"] - event["start"]
EdlDuration(event) == event.end - event.start

\* The edit line and its comment lines for one event.
EdlEdit(kind, index, event, rec_in) ==
    [ index      |-> index,
      source_in  |-> seconds_to_timecode(event.start, FPS),
      source_out |-> seconds_to_timecode(event.end, FPS),
      record_in  |-> seconds_to_timecode(rec_in, FPS),
      record_out |-> seconds_to_timecode(rec_in + EdlDuration(event), FPS),
      label      |-> EdlIdLabel(kind),
      id         |-> event.id ]

\* Variant of EdlOrder that visits the records ordered by start (stable).
EdlOrderSorted(segs, k) ==
    LET rank(j) == Cardinality({m \in 1..Len(segs) :
                       \/ segs[m].start < segs[j].start
                       \/ (segs[m].start = segs[j].start /\ m < j)}) + 1
    IN  CHOOSE j \in 1..Len(segs) : rank(j) = k

\* The position the loop visits at its k-th iteration: enumerate(segments, start=1).
EdlOrder(segs, k) == k

\* Variant of EdlAdvance that moves the cursor to the record's own out-point.
EdlAdvanceAbsolute(rec_in, event) == event.end

\* record_in += duration
EdlAdvance(rec_in, event) == rec_in + EdlDuration(event)

\* generate_events_edl returns filepath, generate_insights_edl returns edl_content.
EdlReturn(kind, content) ==
    IF kind = "events" THEN Returned(EdlPath(kind))
    ELSE [type |-> "content", value |-> content]

\* One iteration of "for i, event in enumerate(segments, start=1)".
EdlLoop ==
    /\ pc = "edl_loop"
    /\ i <= Len(segments)
    /\ LET event == segments[EdlOrder(segments, i)]
       IN  /\ edl_lines' = Append(edl_lines, EdlEdit(edl_kind, i, event, record_in))
           /\ record_in' = EdlAdvance(record_in, event)
    /\ i' = i + 1
    /\ UNCHANGED <<pc, segments, files, result, edl_kind, tjVars, vttVars, pebVars, fnVars, xmlVars, jobVars>>

\* After the loop: the EDL file is written and the generator returns.
EdlWrite ==
    /\ pc = "edl_loop"
    /\ i > Len(segments)
    /\ files' = WriteFile(files, EdlPath(edl_kind), edl_lines)
    /\ result' = EdlReturn(edl_kind, edl_lines)
    /\ pc' = "edl_done"
    /\ UNCHANGED <<segments, edlVars, tjVars, vttVars, pebVars, fnVars, xmlVars, jobVars>>

\* <<start, end>> of the records handed to the EDL generators: whole and
\* fractional seconds, overlapping and out-of-order source positions, a zero
\* duration and an end before its start (nothing validates the stored values).
EdlSpans ==
    { <<0, Sec(1)>>, <<0, Sec(3)>>, <<Sec(1), Sec(3)>>,
      <<Sec(1), Sec(1) + Millis(520)>>, <<Sec(1) + Millis(520), Sec(3)>>,
      <<Sec(1), Sec(1)>>, <<Sec(3), Sec(1)>> }

EdlInit ==
    /\ pc = "edl_loop"
    /\ edl_kind \in EdlKinds
    /\ \E n \in 0..MaxSegments :
         \E span \in [1..n -> EdlSpans] :
            segments = [k \in 1..n |-> [id |-> k, start |-> span[k][1], end |-> span[k][2]]]
    /\ files = NoFiles
    /\ result = NoResult
    /\ i = 1
    /\ record_in = 0
    /\ edl_lines = <<>>
    /\ TjIdle /\ VttIdle /\ PebIdle /\ FnIdle /\ XmlIdle /\ JobIdle

EdlNext == EdlLoop \/ EdlWrite

SpecEdl == EdlInit /\ [][EdlNext]_vars

----------------------------------------------------------------------------
(* generate_transcript_json *)

TranscriptJsonPath == "transcript/sdna_ai_spark_transcript.json"

\* str.strip(): leading and trailing whitespace removed.
RECURSIVE PyStrip(_)
PyStrip(text) ==
    IF text = "" THEN ""
    ELSE IF Head(text) = " " THEN PyStrip(Tail(text))
    ELSE IF SubSeq(text, Len(text), Len(text)) = " "
         THEN PyStrip(SubSeq(text, 1, Len(text) - 1))
    ELSE text

\* " ".join(parts)
RECURSIVE PyJoin(_)
PyJoin(parts) ==
    IF parts = <<>> THEN ""
    ELSE IF Len(parts) = 1 THEN parts[1]
    ELSE parts[1] \o " " \o PyJoin(Tail(parts))

\* The generator expression of the join: str(seg.get("eventValue", "")).strip()
\* for seg in segments if seg.get("eventValue") -- the condition is the
\* truthiness of the stored value, before it is stripped.
RECURSIVE TjMergedParts(_)
TjMergedParts(segs) ==
    IF segs = <<>> THEN <<>>
    ELSE (IF Head(segs).eventValue # "" THEN <<PyStrip(Head(segs).eventValue)>> ELSE <<>>)
         \o TjMergedParts(Tail(segs))

TjMergedText(segs) == PyJoin(TjMergedParts(segs))

\* min()/max() compare the values pairwise: a number against a str raises
\* TypeError.
TjCompareRaises(segs) ==
    \E j, k \in 1..Len(segs) : segs[j].endType # segs[k].endType

\* Variant of TjMinStart that takes the first segment's start.
TjMinStartOfFirst(segs) == segs[1].start

\* min(seg.get("start", 0) for seg in segments)
TjMinStart(segs) ==
    CHOOSE m \in {segs[k].start : k \in 1..Len(segs)} :
        \A k \in 1..Len(segs) : m <= segs[k].start

\* max(seg.get("end", 0) for seg in segments)
TjMaxEnd(segs) ==
    CHOOSE m \in {segs[k].end : k \in 1..Len(segs)} :
        \A k \in 1..Len(segs) : m >= segs[k].end

\* The single merged segment.
TjMergedSegment(segs) ==
    [ id            |-> "1",
      sdnaEventType |-> "transcript",
      eventValue    |-> TjMergedText(segs),
      start         |-> TjMinStart(segs),
      end           |-> TjMaxEnd(segs),
      endType       |-> segs[1].endType ]

\* Variant of TjCleanItem that removes nothing.
TjCleanItemUntouched(item) == item

\* item_dict = dict(item); item_dict.pop("fullPath", None)
TjCleanItem(item) == [f \in (DOMAIN item) \ {"fullPath"} |-> item[f]]

TjCleanAll(segs) == [k \in 1..Len(segs) |-> TjCleanItem(segs[k])]

\* Variant of TjCallerItem in which item_dict is the caller's mapping itself.
TjCallerItemAliased(item) == TjCleanItem(item)

\* The caller's mapping after "item_dict = dict(item); item_dict.pop(...)":
\* dict(item) is a new mapping, so the pop does not reach the caller's.
TjCallerItem(item) == item

\* The try block: the merge branch, the multi-segment branch, or the except
\* clause, which logs and assigns nothing.
TjTry ==
    /\ pc = "tj_try"
    /\ IF is_single_segment /\ segments # <<>>
       THEN IF TjCompareRaises(segments)
            THEN cleaned_segments' = cleaned_segments
            ELSE cleaned_segments' = Bound(<<TjMergedSegment(segments)>>)
       ELSE cleaned_segments' = Bound(TjCleanAll(segments))
    /\ segments' = IF is_single_segment /\ segments # <<>> THEN segments
                   ELSE [k \in 1..Len(segments) |-> TjCallerItem(segments[k])]
    /\ pc' = "tj_output"
    /\ UNCHANGED <<files, result, is_single_segment, edlVars, vttVars, pebVars, fnVars, xmlVars, jobVars>>

\* output_data = {"segments": cleaned_segments}; json.dump; return filepath.
\* Reading the name while it is unbound raises UnboundLocalError out of the
\* generator.
TjOutput ==
    /\ pc = "tj_output"
    /\ IF cleaned_segments.bound
       THEN /\ files' = WriteFile(files, TranscriptJsonPath, cleaned_segments.value)
            /\ result' = Returned(TranscriptJsonPath)
       ELSE /\ files' = files
            /\ result' = Raised("UnboundLocalError")
    /\ pc' = "tj_done"
    /\ UNCHANGED <<segments, tjVars, edlVars, vttVars, pebVars, fnVars, xmlVars, jobVars>>

\* The stored records: eventValue, <<start, end>> and the type of the stored
\* end (a float, or a str that nothing validated).
TjValues == {"", " ", "a", "b", " c "}
TjSpans == {<<Sec(1), Sec(3)>>, <<Sec(2), Sec(5)>>}

TjInit ==
    /\ pc = "tj_try"
    /\ is_single_segment \in BOOLEAN
    /\ \E n \in 0..MaxSegments :
         \E v \in [1..n -> TjValues] : \E span \in [1..n -> TjSpans] :
           \E odd \in 0..n :
             segments = [k \in 1..n |->
                           [ id         |-> k,
                             eventValue |-> v[k],
                             start      |-> span[k][1],
                             end        |-> span[k][2],
                             endType    |-> IF k = odd THEN "str" ELSE "float",
                             fullPath   |-> "/media/clip.mp4" ]]
    /\ cleaned_segments = Unbound
    /\ files = NoFiles
    /\ result = NoResult
    /\ EdlIdle /\ VttIdle /\ PebIdle /\ FnIdle /\ XmlIdle /\ JobIdle

TjNext == TjTry \/ TjOutput

SpecTranscriptJson == TjInit /\ [][TjNext]_vars

----------------------------------------------------------------------------
(* generate_transcript_vtt *)

TranscriptVttPath == "transcript/sdna_ai_spark_transcript.vtt"

\* Python's f"{n:03d}".
Fmt03(n) ==
    IF n < 0 THEN "-" \o Fmt02(-n)
    ELSE IF n < 100 THEN "0" \o Fmt02(n)
    ELSE ToString(n)

\* _format_vtt_time: HH:MM:SS.mmm, every component floored.
format_vtt_time(seconds) ==
    LET hours == seconds \div (3600 * TicksPerSecond)
        minutes == (seconds % (3600 * TicksPerSecond)) \div (60 * TicksPerSecond)
        secs == (seconds % (60 * TicksPerSecond)) \div TicksPerSecond
        millis == ((seconds % TicksPerSecond) * MillisPerSecond) \div TicksPerSecond
    IN  Fmt02(hours) \o ":" \o Fmt02(minutes) \o ":" \o Fmt02(secs) \o "." \o Fmt03(millis)

\* The characters of a timestamp in code-point order.
TimestampAlphabet == "-.0123456789:"
CodePointRank(c) ==
    CHOOSE k \in 1..Len(TimestampAlphabet) : SubSeq(TimestampAlphabet, k, k) = c

\* Python's a < b on str: lexicographic by code point.
RECURSIVE PyStrLess(_, _)
PyStrLess(a, b) ==
    IF b = "" THEN FALSE
    ELSE IF a = "" THEN TRUE
    ELSE IF Head(a) = Head(b) THEN PyStrLess(Tail(a), Tail(b))
    ELSE CodePointRank(Head(a)) < CodePointRank(Head(b))

\* Variant of VttInvalidTimestamps that lets equal timestamps through.
VttInvalidTimestampsStrict(start, end) == PyStrLess(end, start)

\* if start >= end: the two formatted timestamps are compared as strings.
VttInvalidTimestamps(start, end) == ~PyStrLess(start, end)

\* The cue block written for the segment at position n: the number line, the
\* timing line and the text line.
VttCue(n, start, end, text) ==
    [number |-> n, start |-> start, end |-> end, text |-> text]

\* with open(filepath, "w"): f.write("WEBVTT\n\n") -- the file exists, without
\* cues, before the loop starts.
VttOpen ==
    /\ pc = "vtt_open"
    /\ files' = WriteFile(files, TranscriptVttPath, <<>>)
    /\ pc' = "vtt_loop"
    /\ UNCHANGED <<segments, result, edlVars, tjVars, vttVars, pebVars, fnVars, xmlVars, jobVars>>

\* One iteration of "for idx, segment in enumerate(segments, 1)".
VttLoop ==
    /\ pc = "vtt_loop"
    /\ (IF idx.bound THEN idx.value ELSE 0) < Len(segments)
    /\ LET n == (IF idx.bound THEN idx.value ELSE 0) + 1
           segment == segments[n]
           text == PyStrip(segment.eventValue)
           start == format_vtt_time(segment.start)
           end == format_vtt_time(segment.end)
       IN  /\ idx' = Bound(n)
           /\ IF text = "" THEN files' = files
              ELSE IF VttInvalidTimestamps(start, end) THEN files' = files
              ELSE files' = WriteFile(files, TranscriptVttPath,
                               Append(files[TranscriptVttPath], VttCue(n, start, end, text)))
    /\ UNCHANGED <<pc, segments, result, edlVars, tjVars, pebVars, fnVars, xmlVars, jobVars>>

\* logger.info(f"... segments_written={idx}"); return filepath.  With no
\* segment the loop never bound idx and the log line raises UnboundLocalError.
VttReturn ==
    /\ pc = "vtt_loop"
    /\ (IF idx.bound THEN idx.value ELSE 0) = Len(segments)
    /\ result' = IF idx.bound THEN Returned(TranscriptVttPath) ELSE Raised("UnboundLocalError")
    /\ pc' = "vtt_done"
    /\ UNCHANGED <<segments, files, edlVars, tjVars, vttVars, pebVars, fnVars, xmlVars, jobVars>>

\* The stored segments: text that is empty, blank, or in need of trimming, and
\* <<start, end>> that are apart, equal, reversed, less than a millisecond
\* apart, and apart across a change of every digit of the seconds.
VttValues == {"", " ", " b "}
VttSpans ==
    { <<Sec(1), Sec(3)>>, <<Sec(2), Sec(2)>>, <<Sec(3), Sec(1)>>,
      <<Sec(2) + 1, Sec(2) + 9>>, <<Sec(10) - 5, Sec(10)>> }

VttInit ==
    /\ pc = "vtt_open"
    /\ \E n \in 0..MaxSegments :
         \E v \in [1..n -> VttValues] : \E span \in [1..n -> VttSpans] :
            segments = [k \in 1..n |->
                          [id |-> k, eventValue |-> v[k],
                           start |-> span[k][1], end |-> span[k][2]]]
    /\ idx = Unbound
    /\ files = NoFiles
    /\ result = NoResult
    /\ EdlIdle /\ TjIdle /\ PebIdle /\ FnIdle /\ XmlIdle /\ JobIdle

VttNext == VttOpen \/ VttLoop \/ VttReturn

SpecVtt == VttInit /\ [][VttNext]_vars

----------------------------------------------------------------------------
(* _format_srt_time and _format_vtt_time called on their own *)

\* Variant of format_srt_time that rounds the milliseconds to the nearest.
format_srt_time_rounded(seconds) ==
    LET hours == seconds \div (3600 * TicksPerSecond)
        minutes == (seconds % (3600 * TicksPerSecond)) \div (60 * TicksPerSecond)
        secs == (seconds % (60 * TicksPerSecond)) \div TicksPerSecond
        millis == ((seconds % TicksPerSecond) * MillisPerSecond + TicksPerSecond \div 2)
                     \div TicksPerSecond
    IN  Fmt02(hours) \o ":" \o Fmt02(minutes) \o ":" \o Fmt02(secs) \o "," \o Fmt03(millis)

\* _format_srt_time: HH:MM:SS,mmm, every component floored.
format_srt_time(seconds) ==
    LET hours == seconds \div (3600 * TicksPerSecond)
        minutes == (seconds % (3600 * TicksPerSecond)) \div (60 * TicksPerSecond)
        secs == (seconds % (60 * TicksPerSecond)) \div TicksPerSecond
        millis == ((seconds % TicksPerSecond) * MillisPerSecond) \div TicksPerSecond
    IN  Fmt02(hours) \o ":" \o Fmt02(minutes) \o ":" \o Fmt02(secs) \o "," \o Fmt03(millis)

TsCall ==
    /\ pc = "ts_call"
    /\ result' = Value(IF fn = "_format_srt_time" THEN format_srt_time(args.seconds)
                       ELSE format_vtt_time(args.seconds))
    /\ pc' = "ts_done"
    /\ UNCHANGED <<segments, files, edlVars, tjVars, vttVars, pebVars, fnVars, xmlVars, jobVars>>

\* Non-negative seconds: whole seconds around the minute, hour and day
\* borders, with fractions on, just above and just below a millisecond.
TsWholes == {0, 1, 59, 60, 3599, 3600, 3661, 86399, 200000}
TsFracs == {0, 1, 9, 10, 2500, 9989, 9990, 9999}

TsInit ==
    /\ pc = "ts_call"
    /\ fn \in {"_format_srt_time", "_format_vtt_time"}
    /\ \E w \in TsWholes, f \in TsFracs : args = [seconds |-> Sec(w) + f]
    /\ segments = <<>>
    /\ files = NoFiles
    /\ result = NoResult
    /\ EdlIdle /\ TjIdle /\ VttIdle /\ PebIdle /\ XmlIdle /\ JobIdle

TsNext == TsCall

SpecTimestamp == TsInit /\ [][TsNext]_vars

----------------------------------------------------------------------------
(* generate_transcript_fcpxml (the XMEML builder) and generate_events_fcpxml *)

XmlKinds == {"xmeml", "fcpxml"}

XmlPath(kind) ==
    IF kind = "xmeml" THEN "transcript/sdna_ai_spark_transcript.xml"
    ELSE "event/sdna_ai_spark_events.fcpxml"

\* Variant of seconds_to_frames that truncates.
seconds_to_frames_truncated(seconds, fps) == PyInt(seconds * fps, TicksPerSecond)

\* seconds_to_frames: int(round(float(seconds) * fps)), halves to even.
seconds_to_frames(seconds, fps) ==
    IF seconds >= 0 THEN RoundHalfEven(seconds * fps, TicksPerSecond)
    ELSE -RoundHalfEven((-seconds) * fps, TicksPerSecond)

\* _seconds_to_fcpx_time: f"{sec:.3f}s", sec >= 0.
seconds_to_fcpx_time(sec) ==
    LET ms == RoundHalfEven(sec, TicksPerSecond \div MillisPerSecond)
    IN  ToString(ms \div MillisPerSecond) \o "." \o Fmt03(ms % MillisPerSecond) \o "s"

\* _fps_to_frame_duration: num, den = fps.split("/"); the unpacking raises
\* ValueError unless the split gives exactly two fields.
fps_to_frame_duration(fps) ==
    LET parts == SplitOn(fps, "/", "")
    IN  IF Len(parts) = 2 THEN Value(parts[2] \o "/" \o parts[1] \o "s")
        ELSE Raised("ValueError")

\* max(float(seg["end"]) for seg in segments), segments non-empty.
RECURSIVE MaxEnd(_)
MaxEnd(segs) ==
    IF Len(segs) = 1 THEN segs[1].end
    ELSE LET m == MaxEnd(Tail(segs))
         IN  IF Head(segs).end >= m THEN Head(segs).end ELSE m

\* The else branch: no probe, the duration from the segments or one second.
XmlFallbackSeconds(segs) == IF segs # <<>> THEN MaxEnd(segs) ELSE Sec(1)

\* round(int(num) / int(den)) of the probed "num/den".
XmlProbedFps(raw_fps) ==
    LET parts == SplitOn(raw_fps, "/", "")
    IN  RoundHalfEven(ParseDigits(parts[1], 0), ParseDigits(parts[2], 0))

\* The head of both builders.  video_path is assigned from segments[0] and
\* then overwritten with a fixed path, and only that path is looked for;
\* when it exists _get_video_metadata runs ffprobe, and whatever goes wrong
\* there (no ffprobe, no JSON, no video stream) leaves the builder as an
\* exception.
XmlMeta ==
    /\ pc = "xml_meta"
    /\ IF media.fixed_path_exists
       THEN IF media.probe = "fails"
            THEN /\ result' = Raised("ProbeError")
                 /\ pc' = "xml_done"
                 /\ xml' = xml
            ELSE /\ xml' = Bound(
                      IF xml_kind = "xmeml"
                      THEN [fps |-> XmlProbedFps(media.meta.fps),
                            duration |-> PyInt(media.meta.duration * XmlProbedFps(media.meta.fps),
                                               TicksPerSecond),
                            width |-> media.meta.width, height |-> media.meta.height]
                      ELSE [frame_duration |-> fps_to_frame_duration(media.meta.fps).value,
                            duration |-> seconds_to_fcpx_time(media.meta.duration),
                            width |-> media.meta.width, height |-> media.meta.height])
                 /\ pc' = "xml_build"
                 /\ result' = result
       ELSE /\ xml' = Bound(
                 IF xml_kind = "xmeml"
                 THEN [fps |-> 25,
                       duration |-> PyInt(XmlFallbackSeconds(segments) * 25, TicksPerSecond),
                       width |-> "1920", height |-> "1080"]
                 ELSE [frame_duration |-> "1/25s",
                       duration |-> seconds_to_fcpx_time(XmlFallbackSeconds(segments)),
                       width |-> "1920", height |-> "1080"])
            /\ pc' = "xml_build"
            /\ result' = result
    /\ UNCHANGED <<segments, files, xml_kind, media, edlVars, tjVars, vttVars, pebVars, fnVars, jobVars>>

\* The marker of a segment: frames in the XMEML, seconds in the FCPXML.
XmlMarker(kind, seg, fps) ==
    IF kind = "xmeml"
    THEN [in |-> seconds_to_frames(seg.start, fps), out |-> seconds_to_frames(seg.end, fps)]
    ELSE [id |-> seg.id, start |-> seconds_to_fcpx_time(seg.start),
          end |-> seconds_to_fcpx_time(seg.end)]

\* What the builder writes: the durations of the sequence, of the video clip,
\* of the two audio clips and of the file (XMEML), or of the asset, the
\* sequence and the asset clip (FCPXML), the format, and one marker per
\* segment.
XmlDocument(kind, x, segs) ==
    IF kind = "xmeml"
    THEN [sequence_duration |-> x.duration, video_clip_duration |-> x.duration,
          audio_clip_durations |-> <<x.duration, x.duration>>,
          file_duration |-> x.duration, timebase |-> x.fps,
          width |-> x.width, height |-> x.height,
          markers |-> [k \in 1..Len(segs) |-> XmlMarker(kind, segs[k], x.fps)]]
    ELSE [asset_duration |-> x.duration, sequence_duration |-> x.duration,
          clip_duration |-> x.duration, frame_duration |-> x.frame_duration,
          width |-> x.width, height |-> x.height,
          markers |-> [k \in 1..Len(segs) |-> XmlMarker(kind, segs[k], 0)]]

\* The rest of the builder.  The XMEML builder turns the fixed path into a
\* file URL with Path(video_path).as_uri(), which raises ValueError where the
\* path is not absolute (a drive-letter path on a POSIX system).
XmlBuild ==
    /\ pc = "xml_build"
    /\ IF xml_kind = "xmeml" /\ media.posix
       THEN /\ result' = Raised("ValueError")
            /\ files' = files
       ELSE /\ files' = WriteFile(files, XmlPath(xml_kind),
                                  XmlDocument(xml_kind, xml.value, segments))
            /\ result' = Returned(XmlPath(xml_kind))
    /\ pc' = "xml_done"
    /\ UNCHANGED <<segments, xmlVars, edlVars, tjVars, vttVars, pebVars, fnVars, jobVars>>

\* Segments with <<start, end>> on and between frame borders at 25 and 30
\* fps (1.5 and 2.5 frames, 82.5 frames), and what ffprobe reports for a file
\* it can read.
XmlSpans ==
    { <<Millis(60), Millis(100)>>, <<Sec(1), Millis(3300)>>,
      <<Millis(1520), Millis(2990)>>, <<0, Sec(5)>> }
XmlProbed ==
    { [duration |-> Millis(10500), fps |-> "30000/1001", width |-> "1280", height |-> "720"],
      [duration |-> Sec(2), fps |-> "25/1", width |-> "1920", height |-> "1080"] }

XmlInit ==
    /\ pc = "xml_meta"
    /\ xml_kind \in XmlKinds
    /\ \E n \in 0..MaxSegments : \E span \in [1..n -> XmlSpans] :
          segments = [k \in 1..n |->
                        [id |-> k, start |-> span[k][1], end |-> span[k][2],
                         fullPath |-> "/media/source.mp4"]]
    /\ \E px \in BOOLEAN, fx \in BOOLEAN, sx \in BOOLEAN, pr \in {"ok", "fails"},
          m \in XmlProbed :
          media = [posix |-> px, fixed_path_exists |-> fx, source_exists |-> sx,
                   probe |-> pr, meta |-> m]
    /\ xml = Unbound
    /\ files = NoFiles
    /\ result = NoResult
    /\ EdlIdle /\ TjIdle /\ VttIdle /\ PebIdle /\ FnIdle /\ JobIdle

XmlNext == XmlMeta \/ XmlBuild

SpecXml == XmlInit /\ [][XmlNext]_vars

----------------------------------------------------------------------------
(* _fps_to_frame_duration called on its own *)

FdCall ==
    /\ pc = "fd_call"
    /\ result' = fps_to_frame_duration(args.fps)
    /\ pc' = "fd_done"
    /\ UNCHANGED <<segments, files, edlVars, tjVars, vttVars, pebVars, fnVars, xmlVars, jobVars>>

\* fps strings: "num/den" as ffprobe's r_frame_rate, and a bare integer.
FdNums == {"24", "25", "30", "48", "50", "60", "120", "24000", "30000", "60000", "2997"}
FdDens == {"", "1", "2", "100", "1001"}

FdInit ==
    /\ pc = "fd_call"
    /\ fn = "_fps_to_frame_duration"
    /\ \E num \in FdNums, den \in FdDens :
          args = [fps |-> IF den = "" THEN num ELSE num \o "/" \o den]
    /\ segments = <<>>
    /\ files = NoFiles
    /\ result = NoResult
    /\ EdlIdle /\ TjIdle /\ VttIdle /\ PebIdle /\ XmlIdle /\ JobIdle

FdNext == FdCall

SpecFrameDuration == FdInit /\ [][FdNext]_vars

----------------------------------------------------------------------------
(* Generator calls one after another on the same input, as the artifact
   section makes them: generate_transcript_json, generate_transcript_vtt,
   generate_events_edl and generate_insights_edl. *)

Generators == {"transcript_json", "transcript_vtt", "events_edl", "insights_edl"}

\* The next generator is called on the same data: its locals are fresh, the
\* export directory keeps what was written.
GenStart(g) ==
    /\ pc \in {"gen_idle", "tj_done", "vtt_done", "edl_done"}
    /\ result' = NoResult
    /\ IF g = "transcript_json"
       THEN /\ pc' = "tj_try"
            /\ is_single_segment' \in BOOLEAN
            /\ cleaned_segments' = Unbound
            /\ UNCHANGED <<edlVars, vttVars>>
       ELSE IF g = "transcript_vtt"
       THEN /\ pc' = "vtt_open"
            /\ idx' = Unbound
            /\ UNCHANGED <<edlVars, tjVars>>
       ELSE /\ pc' = "edl_loop"
            /\ edl_kind' = IF g = "events_edl" THEN "events" ELSE "insights"
            /\ i' = 1
            /\ record_in' = 0
            /\ edl_lines' = <<>>
            /\ UNCHANGED <<tjVars, vttVars>>
    /\ UNCHANGED <<segments, files, pebVars, fnVars, xmlVars, jobVars>>

GenValues == {"a", " "}
GenSpans == {<<Sec(1), Sec(3)>>, <<Sec(2), Sec(2)>>}

GenInit ==
    /\ pc = "gen_idle"
    /\ \E n \in 0..MaxSegments :
         \E v \in [1..n -> GenValues] : \E span \in [1..n -> GenSpans] :
            segments = [k \in 1..n |->
                          [id |-> k, eventValue |-> v[k],
                           start |-> span[k][1], end |-> span[k][2],
                           endType |-> "float", fullPath |-> "/media/clip.mp4"]]
    /\ files = NoFiles
    /\ result = NoResult
    /\ EdlIdle /\ TjIdle /\ VttIdle /\ PebIdle /\ FnIdle /\ XmlIdle /\ JobIdle

GenNext ==
    \/ \E g \in Generators : GenStart(g)
    \/ TjTry \/ TjOutput
    \/ VttOpen \/ VttLoop \/ VttReturn
    \/ EdlLoop \/ EdlWrite

SpecGenerators == GenInit /\ [][GenNext]_vars

----------------------------------------------------------------------------
(* generate_events_csv and generate_insights_csv *)

CsvMethods == {"generate_events_csv", "generate_insights_csv"}

CsvPath(method) ==
    IF method = "generate_events_csv" THEN "event/sdna_ai_spark_events.csv"
    ELSE "insights/sdna_ai_spark_insights.csv"

\* headers
CsvHeaders(method) ==
    IF method = "generate_events_csv"
    THEN <<"id", "sdnaEventType", "eventValue", "start", "end">>
    ELSE <<"id", "sdnaEventType", "eventValue", "start", "end", "source">>

\* str() of a stored value as the csv writer applies it: the times are
\* numbers, the other columns text.
CsvText(field, value) == IF field \in {"start", "end"} THEN ToString(value) ELSE value

\* Variant of CsvCell that writes the text None for a field that is missing.
CsvCellNoneText(record, field) ==
    IF field \in DOMAIN record THEN CsvText(field, record[field]) ELSE "None"

\* The cell of a column.  Events: event.get(field), and the writer writes
\* None as the empty string.  Insights: the record without its metadata is
\* handed to the DictWriter, whose restval for a missing key is the empty
\* string.
CsvCell(record, field) ==
    IF field \in DOMAIN record THEN CsvText(field, record[field]) ELSE ""

\* The row of a record: one cell per header, in header order; a field that
\* is no header is not looked at (events) or dropped by
\* extrasaction="ignore" (insights).
CsvRow(method, record) ==
    [j \in 1..Len(CsvHeaders(method)) |-> CsvCell(record, CsvHeaders(method)[j])]

\* open(filepath, "w"); writer.writeheader()
CsvOpen ==
    /\ pc = "csv_open"
    /\ files' = WriteFile(files, CsvPath(fn), <<CsvHeaders(fn)>>)
    /\ pc' = "csv_loop"
    /\ UNCHANGED <<segments, result, edlVars, tjVars, vttVars, pebVars, fnVars, xmlVars, jobVars>>

\* One iteration of the loop over the segments: writer.writerow(row).
CsvWriteRow ==
    /\ pc = "csv_loop"
    /\ Len(files[CsvPath(fn)]) - 1 < Len(segments)
    /\ files' = WriteFile(files, CsvPath(fn),
                          Append(files[CsvPath(fn)],
                                 CsvRow(fn, segments[Len(files[CsvPath(fn)])])))
    /\ UNCHANGED <<pc, segments, result, edlVars, tjVars, vttVars, pebVars, fnVars, xmlVars, jobVars>>

CsvReturn ==
    /\ pc = "csv_loop"
    /\ Len(files[CsvPath(fn)]) - 1 = Len(segments)
    /\ result' = Returned(CsvPath(fn))
    /\ pc' = "csv_done"
    /\ UNCHANGED <<segments, files, edlVars, tjVars, vttVars, pebVars, fnVars, xmlVars, jobVars>>

\* Records: complete, without end, with only an id, with the extra fields
\* the client adds (confidenceScore, fullPath, metadata), with a source.
CsvRecords ==
    { [id |-> "e1", sdnaEventType |-> "label", eventValue |-> "cat", start |-> 1, end |-> 3],
      [id |-> "e2", sdnaEventType |-> "ocr", eventValue |-> "a, b", start |-> 2],
      [id |-> "e3"],
      [id |-> "e4", sdnaEventType |-> "label", eventValue |-> "dog", start |-> 0, end |-> 2,
       confidenceScore |-> "0.9", fullPath |-> "/media/clip.mp4", metadata |-> "m"],
      [id |-> "c1", sdnaEventType |-> "comment", eventValue |-> "nice", start |-> 4, end |-> 5,
       source |-> "user"] }

CsvInit ==
    /\ pc = "csv_open"
    /\ fn \in CsvMethods
    /\ args = None
    /\ \E n \in 0..MaxSegments : segments \in [1..n -> CsvRecords]
    /\ files = NoFiles
    /\ result = NoResult
    /\ EdlIdle /\ TjIdle /\ VttIdle /\ PebIdle /\ XmlIdle /\ JobIdle

CsvNext == CsvOpen \/ CsvWriteRow \/ CsvReturn

SpecCsv == CsvInit /\ [][CsvNext]_vars

----------------------------------------------------------------------------
(* process_export_background: the artifact section, from "artifacts = []" to
   the LLM instructions, entered with the work order of the loaded job. *)

\* The branches of _generate_transcript_artifact, and of _generate_events_artifact
\* and _generate_comments_artifact.
SupportedFormats(kind) ==
    IF kind = "transcript" THEN {"json", "srt", "vtt", "fcpxml"}
    ELSE {"json", "csv", "fcpxml", "edl"}

\* ArtifactGenerator defines generate_transcript_* and generate_events_*; it
\* defines no generate_comments_* method.
GeneratorDefined(kind) == kind \in {"transcript", "events"}

\* The path a generator returns.
GeneratorPath(kind, fmt) ==
    IF kind = "transcript"
    THEN "transcript/sdna_ai_spark_transcript." \o (IF fmt = "fcpxml" THEN "xml" ELSE fmt)
    ELSE "event/sdna_ai_spark_events." \o fmt

KindTitle(kind) ==
    IF kind = "transcript" THEN "Transcript"
    ELSE IF kind = "events" THEN "Events" ELSE "Comments"

\* Variant of UnsupportedFormatMessage that leaves the identifier out.
UnsupportedFormatUnnamed(kind, fmt) == "Unsupported " \o kind \o " format"

\* The message of the else branch.
UnsupportedFormatMessage(kind, fmt) == "Unsupported " \o kind \o " format : format=" \o fmt

GenerationFailedMessage(kind, fmt, exc) ==
    KindTitle(kind) \o " artifact generation failed : format=" \o fmt \o " , error=" \o exc

\* What a function returns, as the pair (filepath, status_msg).
Pair(filepath, status_msg) ==
    [type |-> "return", filepath |-> filepath, status_msg |-> status_msg]

\* _generate_transcript_artifact, _generate_events_artifact and
\* _generate_comments_artifact.  fails: the generator that is called raises
\* (the directory or the file cannot be written, or the data trips it).
generate_artifact(kind, fmt, fails) ==
    IF fmt \in SupportedFormats(kind)
    THEN IF ~GeneratorDefined(kind)
         THEN Pair(None, GenerationFailedMessage(kind, fmt, "AttributeError"))
         ELSE IF fails
              THEN Pair(None, GenerationFailedMessage(kind, fmt, "OSError"))
              ELSE Pair(GeneratorPath(kind, fmt), "Success")
    ELSE Pair(None, UnsupportedFormatMessage(kind, fmt))

\* Path(filepath).name
RECURSIVE PathName(_)
PathName(path) ==
    IF \E k \in 1..Len(path) : SubSeq(path, k, k) = "/"
    THEN PathName(Tail(path))
    ELSE path

\* _create_artifact_record: None without a path.
create_artifact_record(filepath, artifact_type, fmt) ==
    IF filepath = None THEN None
    ELSE [artifact_type |-> artifact_type, format |-> fmt, filename |-> PathName(filepath)]

Call(kind, fmt, outcome) == [kind |-> kind, fmt |-> fmt, outcome |-> outcome]

AppendIfFailed(msgs, status_msg) ==
    IF status_msg # "Success" THEN Append(msgs, status_msg) ELSE msgs

\* The three sections with a dispatch function, and the section after each.
DispatchKinds == {"transcript", "events", "comments"}
NextSection(kind) ==
    IF kind = "transcript" THEN "events"
    ELSE IF kind = "events" THEN "comments" ELSE "selects"

\* A kind the work order leaves out: outputs.get(kind) is None.
NotRequested == <<>>

\* if outputs.get(kind): (and, for the transcript, if transcript_data:)
SectionRuns(kind) ==
    /\ outputs[kind] # NotRequested
    /\ kind = "transcript" => transcript_data # None

\* One iteration of "for fmt in outputs[kind]["formats"]".  The transcript
\* section appends the record whatever the path; events and comments append
\* it only with a path.
PebFormat(kind) ==
    /\ pc = kind
    /\ SectionRuns(kind)
    /\ fmt_pos < Len(outputs[kind])
    /\ \E fails \in BOOLEAN :
         LET fmt == outputs[kind][fmt_pos + 1]
             r == generate_artifact(kind, fmt, fails)
         IN  /\ calls' = Append(calls, Call(kind, fmt, r))
             /\ error_msg' = AppendIfFailed(error_msg, r.status_msg)
             /\ artifacts' =
                  IF kind = "transcript" \/ r.filepath # None
                  THEN Append(artifacts, create_artifact_record(r.filepath, kind, fmt))
                  ELSE artifacts
    /\ fmt_pos' = fmt_pos + 1
    /\ UNCHANGED <<pc, segments, files, result, outputs, transcript_data,
                   edlVars, tjVars, vttVars, fnVars, xmlVars, jobVars>>

\* The section is not requested, or its loop is over.
PebSectionEnd(kind) ==
    /\ pc = kind
    /\ SectionRuns(kind) => fmt_pos = Len(outputs[kind])
    /\ pc' = NextSection(kind)
    /\ fmt_pos' = 0
    /\ UNCHANGED <<segments, files, result, outputs, transcript_data,
                   artifacts, error_msg, calls, edlVars, tjVars, vttVars, fnVars, xmlVars, jobVars>>

SelectsPath == "sdna_ai_spark_selects.edl"

\* One iteration of the selects loop: generator.generate_selects_edl is
\* called outside any try of the section, so when it raises the exception
\* leaves the section for the handler of process_export_background.
PebSelects ==
    /\ pc = "selects"
    /\ outputs.selects.enabled
    /\ fmt_pos < Len(outputs.selects.formats)
    /\ LET fmt == outputs.selects.formats[fmt_pos + 1]
       IN  IF fmt = "edl"
           THEN \E fails \in BOOLEAN :
                  IF fails
                  THEN /\ calls' = Append(calls, Call("selects", fmt, Raised("OSError")))
                       /\ result' = Raised("OSError")
                       /\ pc' = "except"
                       /\ UNCHANGED <<artifacts, fmt_pos>>
                  ELSE /\ calls' = Append(calls, Call("selects", fmt, Returned(SelectsPath)))
                       /\ artifacts' = Append(artifacts,
                                          create_artifact_record(SelectsPath, "selects", fmt))
                       /\ fmt_pos' = fmt_pos + 1
                       /\ UNCHANGED <<pc, result>>
           ELSE /\ fmt_pos' = fmt_pos + 1
                /\ UNCHANGED <<pc, result, artifacts, calls>>
    /\ UNCHANGED <<segments, files, outputs, transcript_data, error_msg,
                   edlVars, tjVars, vttVars, fnVars, xmlVars, jobVars>>

PebSelectsEnd ==
    /\ pc = "selects"
    /\ outputs.selects.enabled => fmt_pos = Len(outputs.selects.formats)
    /\ pc' = "grounding"
    /\ fmt_pos' = 0
    /\ UNCHANGED <<segments, files, result, outputs, transcript_data,
                   artifacts, error_msg, calls, edlVars, tjVars, vttVars, fnVars, xmlVars, jobVars>>

\* generate_grounding_prompt and generate_llm_instructions catch their own
\* exceptions and return (path, "Success") or (None, message).
generate_text(kind, fails) ==
    IF kind = "grounding"
    THEN IF fails THEN Pair(None, "Error occure when writting in grounding file : OSError")
         ELSE Pair("sdna_ai_spark_grounding.txt", "Success")
    ELSE IF fails THEN Pair(None, "Error Occure when writting in llm instruct file : OSError")
         ELSE Pair("sdna_ai_spark_llm_instructions.md", "Success")

\* The grounding section, then the LLM instructions section: each appends
\* the record whatever the path.
PebText(kind, enabled, fmt, artifact_type, next) ==
    /\ pc = kind
    /\ IF enabled
       THEN \E fails \in BOOLEAN :
              LET r == generate_text(kind, fails)
              IN  /\ calls' = Append(calls, Call(kind, fmt, r))
                  /\ error_msg' = AppendIfFailed(error_msg, r.status_msg)
                  /\ artifacts' = Append(artifacts,
                                     create_artifact_record(r.filepath, artifact_type, fmt))
       ELSE UNCHANGED <<calls, error_msg, artifacts>>
    /\ pc' = next
    /\ UNCHANGED <<segments, files, result, outputs, transcript_data, fmt_pos,
                   edlVars, tjVars, vttVars, fnVars, xmlVars, jobVars>>

PebGrounding == PebText("grounding", outputs.grounding.enabled, "txt", "grounding", "llm_instructions")
PebLlmInstructions ==
    PebText("llm_instructions", outputs.llm_instructions, "md", "llm_instruct", "manifest")

\* The format lists of a work order: OutputFormats admits json, csv, srt, vtt,
\* fcpxml and edl for every kind, so a list can name a format its kind does
\* not support.
RequestedFormats == { <<"json">>, <<"csv", "json">>, <<"srt", "json">> }

PebInit ==
    /\ pc = "transcript"
    /\ \E t \in RequestedFormats \cup {NotRequested}, e \in RequestedFormats \cup {NotRequested},
          c \in RequestedFormats \cup {NotRequested}, s \in BOOLEAN, g \in BOOLEAN, l \in BOOLEAN :
         outputs = [transcript |-> t, events |-> e, comments |-> c,
                    selects |-> [enabled |-> s, formats |-> <<"edl", "fcpxml">>],
                    grounding |-> [enabled |-> g],
                    llm_instructions |-> l]
    /\ transcript_data \in {None, "data"}
    /\ fmt_pos = 0
    /\ artifacts = <<>>
    /\ error_msg = <<>>
    /\ calls = <<>>
    /\ segments = <<>>
    /\ files = NoFiles
    /\ result = NoResult
    /\ EdlIdle /\ TjIdle /\ VttIdle /\ FnIdle /\ XmlIdle /\ JobIdle

PebNext ==
    \/ \E kind \in DispatchKinds : PebFormat(kind) \/ PebSectionEnd(kind)
    \/ PebSelects
    \/ PebSelectsEnd
    \/ PebGrounding
    \/ PebLlmInstructions

SpecDispatch == PebInit /\ [][PebNext]_vars

----------------------------------------------------------------------------
(* The destinations of the conversions of one export job: every generator
   of ArtifactGenerator writes to export_dir/<directory>/<filename>, and the
   conversions of one job may be run in any order. *)

MaxConversions == 3

\* The (artifact kind, format) pairs that have a generator.
Conversions ==
    {<<"transcript", f>> : f \in SupportedFormats("transcript")}
    \cup {<<kind, f>> : kind \in {"events", "insights"}, f \in SupportedFormats("events")}
    \cup {<<"selects", "edl">>, <<"grounding", "txt">>, <<"llm_instruct", "md">>}

\* Variant that names the file after the format alone.
DestinationPathByFormat(kind, fmt) == "sdna_ai_spark." \o fmt

\* filepath of the generator of (kind, fmt), relative to export_dir.
DestinationPath(kind, fmt) ==
    IF kind \in {"transcript", "events"} THEN GeneratorPath(kind, fmt)
    ELSE IF kind = "insights" THEN "insights/sdna_ai_spark_insights." \o fmt
    ELSE IF kind = "selects" THEN SelectsPath
    ELSE generate_text(IF kind = "grounding" THEN kind ELSE "llm_instructions", FALSE).filepath

\* One conversion runs to its end: it opens its destination for writing and
\* writes its document (represented by the pair that produced it).
Convert(c) ==
    /\ pc = "converting"
    /\ Len(calls) < MaxConversions
    /\ \A k \in 1..Len(calls) : calls[k] # c
    /\ files' = WriteFile(files, DestinationPath(c[1], c[2]), c)
    /\ calls' = Append(calls, c)
    /\ UNCHANGED <<pc, segments, result, outputs, transcript_data, fmt_pos, artifacts,
                   error_msg, edlVars, tjVars, vttVars, fnVars, xmlVars, jobVars>>

ConvInit ==
    /\ pc = "converting"
    /\ segments = <<>>
    /\ files = NoFiles
    /\ result = NoResult
    /\ PebIdle
    /\ EdlIdle /\ TjIdle /\ VttIdle /\ FnIdle /\ XmlIdle /\ JobIdle

ConvNext == \E c \in Conversions : Convert(c)

SpecConversions == ConvInit /\ [][ConvNext]_vars

----------------------------------------------------------------------------
(* create_import (api/import_routes.py) with ImportService.create_import_job:
   the work order has passed the ImportWorkOrder schema, so it has at least
   one highlight, every highlight has end > start, and a confidence score is
   absent or within 0..100. *)

\* confidenceScore = None: the field is optional.
NoScore == -1

\* datetime.utcnow(), and the message create_import_job stores.
UtcNow == "utcnow"
ValidationFailed == "Validation failed"

\* Variant that accepts a confidence score of 0.
HighlightErrorsWithoutScore(h) ==
    (IF h.start < 0 THEN <<"start timestamp cannot be negative">> ELSE <<>>)
    \o (IF h.end <= h.start THEN <<"end must be greater than start">> ELSE <<>>)

\* The errors one iteration of the loop of _validate_highlights appends.
HighlightErrors(h) ==
    (IF h.start < 0 THEN <<"start timestamp cannot be negative">> ELSE <<>>)
    \o (IF h.end <= h.start THEN <<"end must be greater than start">> ELSE <<>>)
    \o (IF h.confidenceScore # NoScore /\ h.confidenceScore = 0
        THEN <<"confidence must be > 0 for LLM highlights">> ELSE <<>>)

RECURSIVE _validate_highlights(_)
_validate_highlights(highlights) ==
    IF highlights = <<>> THEN <<>>
    ELSE HighlightErrors(Head(highlights)) \o _validate_highlights(Tail(highlights))

\* A row of import_jobs as its constructor leaves it: the columns that are
\* not given take their defaults.  highlights is the number of rows of
\* import_highlights stored with the job's import_id.
ImportLLmJob(status, validation_errors, error_message, highlights) ==
    [status |-> status, validation_errors |-> validation_errors,
     error_message |-> error_message, started_at |-> None, completed_at |-> None,
     items_processed |-> 0, items_created |-> 0, items_updated |-> 0, items_skipped |-> 0,
     highlights |-> highlights]

\* The route from the request to the response.  commits: session.commit()
\* succeeds; when it raises, create_import_job logs and returns None, nothing
\* is stored, and the route returns that None.
create_import ==
    /\ pc = "create_import"
    /\ \E commits \in BOOLEAN :
         LET validation_errors == _validate_highlights(work_order.highlights)
             row == IF validation_errors # <<>>
                    THEN ImportLLmJob("failed", validation_errors, ValidationFailed,
                                      Len(work_order.highlights))
                    ELSE ImportLLmJob("pending", <<>>, None, Len(work_order.highlights))
         IN  /\ job' = IF commits THEN row ELSE NoJob
             /\ queued' = IF commits /\ row.status # "failed"
                          THEN Append(queued, "process_import_background_for_llm")
                          ELSE queued
             /\ result' = IF commits THEN [type |-> "response", value |-> row.status]
                          ELSE [type |-> "response", value |-> None]
    /\ pc' = "responded"
    /\ UNCHANGED <<segments, files, work_order, task,
                   edlVars, tjVars, vttVars, pebVars, fnVars, xmlVars>>

ImpSpans == {<<0 - Sec(1), Sec(1)>>, <<0, Sec(1)>>, <<Sec(1), Sec(2)>>}
ImpScores == {NoScore, 0, 50}

CreateImportInit ==
    /\ pc = "create_import"
    /\ \E n \in 1..MaxSegments :
         \E span \in [1..n -> ImpSpans] : \E score \in [1..n -> ImpScores] :
           work_order = [highlights |->
                           [k \in 1..n |-> [start |-> span[k][1], end |-> span[k][2],
                                            confidenceScore |-> score[k]]]]
    /\ job = NoJob
    /\ queued = <<>>
    /\ task = None
    /\ segments = <<>>
    /\ files = NoFiles
    /\ result = NoResult
    /\ EdlIdle /\ TjIdle /\ VttIdle /\ PebIdle /\ FnIdle /\ XmlIdle

CreateImportNext == create_import

SpecCreateImport == CreateImportInit /\ [][CreateImportNext]_vars

----------------------------------------------------------------------------
(* create_export (api/export_routes.py) with ExportService.create_export_job,
   and process_export_background called with the export_id of a stored job. *)

\* The columns of the table export_jobs, the keys _to_response hands to
\* ExportJobResponse.model_validate, and the fields of ExportJobResponse:
\* the required ones and all of them.
ExportJobColumns ==
    {"id", "export_id", "repo_guid", "export_mode", "export_preset", "work_order", "status",
     "zip_file_path", "requested_by", "export_path", "manifest", "error_message",
     "error_details", "created_at", "started_at", "completed_at", "updated_at"}
ToResponseKeys == ExportJobColumns \ {"id"}
ExportJobResponseRequired ==
    {"spark_id", "repo_guid", "status", "export_mode", "export_preset", "created_at"}
ExportJobResponseFields ==
    ExportJobResponseRequired \cup {"started_at", "completed_at", "error_message", "manifest"}

\* A row of export_jobs as create_export_job stores it.
ExportJob ==
    [status |-> "pending", manifest |-> None, export_path |-> None,
     error_message |-> None, started_at |-> None, completed_at |-> None]

\* Variant that lets every work order pass.
_validate_edl_usage_always(outputs_) == TRUE

\* ExportService._validate_edl_usage
_validate_edl_usage(outputs_) ==
    ~(/\ outputs_.transcript # NotRequested
      /\ \E k \in 1..Len(outputs_.transcript) : outputs_.transcript[k] = "edl")

\* ExportService._to_response: model_validate raises when a required field
\* has no key.
_to_response(row) ==
    IF ExportJobResponseRequired \subseteq ToResponseKeys
    THEN [type |-> "response", value |-> row.status]
    ELSE Raised("ValidationError")

\* ExportService.create_export_job: the row it stores and what it returns
\* (NoResult for None).  Every exception is caught and turned into None; the
\* row committed before _to_response raised stays committed.
create_export_job(order, commits) ==
    IF ~_validate_edl_usage(order.outputs) THEN [stored |-> NoJob, returned |-> NoResult]
    ELSE IF ~commits THEN [stored |-> NoJob, returned |-> NoResult]
    ELSE [stored |-> ExportJob,
          returned |-> IF _to_response(ExportJob).type = "raised" THEN NoResult
                       ELSE _to_response(ExportJob)]

\* The route: str(job.export_id) raises AttributeError when job is None or
\* has no such field; the handler of the route answers 500 and add_task has
\* not been called.
create_export ==
    /\ pc = "create_export"
    /\ \E commits \in BOOLEAN :
         LET created == create_export_job(work_order, commits)
             queues == created.returned # NoResult /\ "export_id" \in ExportJobResponseFields
         IN  /\ job' = created.stored
             /\ queued' = IF queues THEN Append(queued, "process_export_background") ELSE queued
             /\ result' = [type |-> "response", value |-> IF queues THEN 202 ELSE 500,
                           returned |-> created.returned]
    /\ pc' = "responded"
    /\ UNCHANGED <<segments, files, work_order, task,
                   edlVars, tjVars, vttVars, pebVars, fnVars, xmlVars>>

\* select(ExportJob).where(ExportJob.<column> == ...): reading a column the
\* model class does not define raises AttributeError before any query runs.
ExportJobLookup(column, row) ==
    IF column \in ExportJobColumns THEN [type |-> "row", value |-> row]
    ELSE Raised("AttributeError")

\* process_export_background(export_id) for the stored job, from its entry
\* to its return (the route never adds the task: see create_export).  When the
\* lookup raises, the local job is still None, so the handler at line 164
\* logs and updates nothing, and the function returns normally.  When the
\* lookup finds the row the job is marked PROCESSING and the artifact section
\* follows.
process_export_background ==
    /\ pc = "responded"
    /\ job # NoJob
    /\ LET found == ExportJobLookup("spark_id", job)
       IN  IF found.type = "raised"
           THEN /\ task' = [job |-> NoJob, exc |-> found.value, propagated |-> FALSE]
                /\ job' = job
                /\ pc' = "returned"
           ELSE /\ task' = [job |-> found.value, exc |-> None, propagated |-> FALSE]
                /\ job' = [job EXCEPT !.status = "processing", !.started_at = UtcNow]
                /\ pc' = "transcript"
    /\ UNCHANGED <<segments, files, result, work_order, queued,
                   edlVars, tjVars, vttVars, pebVars, fnVars, xmlVars>>

ExportTranscriptFormats == RequestedFormats \cup {NotRequested, <<"edl">>, <<"srt", "edl">>}
ExportEventFormats == RequestedFormats \cup {NotRequested, <<"edl">>}

ExportInit ==
    /\ pc = "create_export"
    /\ \E t \in ExportTranscriptFormats, e \in ExportEventFormats, c \in {NotRequested, <<"json">>} :
         work_order = [outputs |-> [transcript |-> t, events |-> e, comments |-> c]]
    /\ job = NoJob
    /\ queued = <<>>
    /\ task = None
    /\ segments = <<>>
    /\ files = NoFiles
    /\ result = NoResult
    /\ EdlIdle /\ TjIdle /\ VttIdle /\ PebIdle /\ FnIdle /\ XmlIdle

ExportNext == create_export \/ process_export_background

SpecExport == ExportInit /\ [][ExportNext]_vars

----------------------------------------------------------------------------
(* process_import_background_for_llm (background/tasks.py) with
   FabricClient.ingest_llm_highlights, for a stored import job whose
   validation passed.  The highlights of the job are represented by their
   number: the task and the client only slice, count and forward them. *)

\* BATCH_SIZE of the task (rows per fetch) and of the client (events per POST).
BATCH_SIZE == 1000
INGEST_BATCH_SIZE == 500

Min(a, b) == IF a < b THEN a ELSE b

\* What one client.post can do: answer 2xx, answer another status, or raise
\* httpx.HTTPError; and the statu_msg the client keeps for it.
PostOutcomes == {"success", "rejected", "http_error"}
PostStatus(outcome) ==
    IF outcome = "success" THEN "success"
    ELSE IF outcome = "rejected" THEN "Node API failure : status=500 , body=error"
    ELSE "Node API failure : ConnectError"

\* Variant that counts only the accepted events.
IngestBatchAcceptedOnly(acc, size, outcome) ==
    [created |-> acc.created + (IF outcome = "success" THEN size ELSE 0),
     updated |-> 0, skipped |-> acc.skipped, error_msg |-> PostStatus(outcome)]

\* One iteration of "for i in range(0, len(highlights), BATCH_SIZE)" for a
\* batch of size events: the counters and statu_msg after its POST.
IngestBatch(acc, size, outcome) ==
    [created |-> acc.created + (IF outcome = "success" THEN size ELSE 0),
     updated |-> 0,
     skipped |-> acc.skipped + (IF outcome = "success" THEN 0 ELSE size),
     error_msg |-> PostStatus(outcome)]

\* The number of POSTs for n highlights.
IngestBatches(n) == (n + INGEST_BATCH_SIZE - 1) \div INGEST_BATCH_SIZE

\* ingest_llm_highlights for n > 0 highlights, posts[k] the outcome of the
\* k-th POST: the dict it returns.
RECURSIVE ingest_llm_highlights(_, _, _)
ingest_llm_highlights(n, posts, acc) ==
    IF n = 0 THEN acc
    ELSE ingest_llm_highlights(n - Min(n, INGEST_BATCH_SIZE), Tail(posts),
                               IngestBatch(acc, Min(n, INGEST_BATCH_SIZE), Head(posts)))

\* Python truthiness of error_msg (None and "" are false).
Truthy(text) == text # None /\ text # ""

\* Lines 201-228: the job is found by its import_id, marked PROCESSING with
\* started_at, and the counters start at 0.
ImpStart ==
    /\ pc = "import_start"
    /\ job' = [job EXCEPT !.status = "processing", !.started_at = UtcNow]
    /\ task' = [offset |-> 0, items_created |-> 0, items_updated |-> 0, items_skipped |-> 0,
                error_msg |-> None, exc |-> None]
    /\ pc' = "import_fetch"
    /\ UNCHANGED <<segments, files, result, work_order, queued,
                   edlVars, tjVars, vttVars, pebVars, fnVars, xmlVars>>

\* One iteration of the "while True" loop: fetch up to BATCH_SIZE rows from
\* offset, stop on an empty page, send the page, add the counters, replace
\* error_msg, advance, stop on a short page.  raises: the SELECT raises.
ImpBatch ==
    /\ pc = "import_fetch"
    /\ LET highlights == Min(BATCH_SIZE, job.highlights - task.offset)
       IN  \/ /\ highlights = 0
              /\ pc' = "import_complete"
              /\ task' = task
           \/ /\ highlights > 0
              /\ \E posts \in [1..IngestBatches(highlights) -> PostOutcomes] :
                   LET r == ingest_llm_highlights(highlights, posts,
                              [created |-> 0, updated |-> 0, skipped |-> 0, error_msg |-> None])
                   IN  task' = [task EXCEPT
                                  !.items_created = @ + r.created,
                                  !.items_updated = @ + r.updated,
                                  !.items_skipped = @ + r.skipped,
                                  !.error_msg = IF r.error_msg # "success" THEN r.error_msg ELSE None,
                                  !.offset = @ + BATCH_SIZE]
              /\ pc' = IF highlights < BATCH_SIZE THEN "import_complete" ELSE "import_fetch"
           \/ /\ task' = [task EXCEPT !.exc = "OperationalError"]
              /\ pc' = "import_except"
    /\ UNCHANGED <<segments, files, result, work_order, job, queued,
                   edlVars, tjVars, vttVars, pebVars, fnVars, xmlVars>>

\* Lines 260-273: the counters, error_message, COMPLETED and completed_at
\* are saved in one commit.
ImpComplete ==
    /\ pc = "import_complete"
    /\ job' = [job EXCEPT
                 !.items_processed = task.items_created + task.items_updated + task.items_skipped,
                 !.items_created = task.items_created,
                 !.items_updated = task.items_updated,
                 !.items_skipped = task.items_skipped,
                 !.error_message = IF Truthy(task.error_msg) THEN task.error_msg ELSE None,
                 !.status = "completed",
                 !.completed_at = UtcNow]
    /\ pc' = "import_done"
    /\ UNCHANGED <<segments, files, result, work_order, queued, task,
                   edlVars, tjVars, vttVars, pebVars, fnVars, xmlVars>>

\* Lines 280-296: the handler of the task marks the loaded job FAILED.
ImpExcept ==
    /\ pc = "import_except"
    /\ job' = [job EXCEPT !.status = "failed", !.error_message = task.exc,
                          !.completed_at = UtcNow]
    /\ pc' = "import_done"
    /\ UNCHANGED <<segments, files, result, work_order, queued, task,
                   edlVars, tjVars, vttVars, pebVars, fnVars, xmlVars>>

\* The numbers of highlights stored with the job: around the two batch sizes.
ImpRowCounts == {1, 499, 500, 501, 999, 1000, 1001, 1500, 2000, 2001}

ImpInit ==
    /\ pc = "import_start"
    /\ \E n \in ImpRowCounts : job = ImportLLmJob("pending", <<>>, None, n)
    /\ queued = <<"process_import_background_for_llm">>
    /\ work_order = None
    /\ task = None
    /\ segments = <<>>
    /\ files = NoFiles
    /\ result = NoResult
    /\ EdlIdle /\ TjIdle /\ VttIdle /\ PebIdle /\ FnIdle /\ XmlIdle

ImpNext == ImpStart \/ ImpBatch \/ ImpComplete \/ ImpExcept

SpecImport == ImpInit /\ [][ImpNext]_vars

----------------------------------------------------------------------------
(* create_video_split (api/video_split_routes.py) and process_video_split_task
   (background/tasks.py).  The work order is stored as the JSON of
   model_dump(): a toggle the request left out is null, a toggle it gave is
   the object {"is_enabled": ...}. *)

\* outputs.<kind> = None, and the three values of a toggle.
Absent == [absent |-> TRUE]
Toggles == {Absent, [is_enabled |-> FALSE], [is_enabled |-> TRUE]}
SplitKinds == {"full_video", "individual_segments", "merge_segments"}

\* "if full_video:" on what work_order["outputs"].get("full_video", False)
\* returned: None is false, a non-empty dict is true.
ToggleTruthy(toggle) == toggle # Absent

\* A row of video_split_jobs as create_video_split_export_job stores it.
VideoSplitJob ==
    [status |-> "pending", started_at |-> None, completed_at |-> None,
     error_message |-> None, manifest |-> None,
     segments_processed |-> 0, segments_successful |-> 0, segments_failed |-> 0]

\* The route: the job is stored PENDING and the task is added; when the
\* commit raises, the service returns None and the route answers 500.
create_video_split ==
    /\ pc = "create_video_split"
    /\ \E commits \in BOOLEAN :
         /\ job' = IF commits THEN VideoSplitJob ELSE NoJob
         /\ queued' = IF commits THEN Append(queued, "process_video_split_task") ELSE queued
         /\ result' = [type |-> "response", value |-> IF commits THEN 202 ELSE 500]
    /\ pc' = "responded"
    /\ UNCHANGED <<segments, files, work_order, task,
                   edlVars, tjVars, vttVars, pebVars, fnVars, xmlVars>>

\* Lines 315-334: the queued task finds its job and marks it PROCESSING.
VsStart ==
    /\ pc = "responded"
    /\ queued # <<>>
    /\ job' = [job EXCEPT !.status = "processing", !.started_at = UtcNow]
    /\ task' = [attempted |-> {}, segments_successful |-> 0, segments_failed |-> 0,
                segments_processed |-> 0, artifacts |-> <<>>, exc |-> None]
    /\ queued' = Tail(queued)
    /\ pc' = "split_process"
    /\ UNCHANGED <<segments, files, result, work_order,
                   edlVars, tjVars, vttVars, pebVars, fnVars, xmlVars>>

\* Lines 336-415, which hold no await.  The methods check_ffmpeg_available,
\* get_video_duration, get_segment_data and split_video_segment of
\* VideoSplitClient are coroutine functions and the task calls them without
\* await, so each call returns a coroutine object: the availability check is
\* always passed, total_duration is not a number, and with event_ids given
\* segment_data.get raises AttributeError, which ends the task in its
\* handler.  Without event_ids segments is empty: the loop over the segments
\* has no iteration and the merge is skipped; the full video is attempted
\* when its toggle is truthy, and formatting total_duration into the output
\* filename raises TypeError inside the try of the section.
VsProcess ==
    /\ pc = "split_process"
    /\ IF work_order.inputs.event_ids # <<>>
       THEN /\ task' = [task EXCEPT !.exc = "AttributeError"]
            /\ pc' = "split_except"
       ELSE /\ task' =
                 [task EXCEPT
                    !.attempted = {kind \in {"full_video"} : ToggleTruthy(work_order.outputs[kind])},
                    !.segments_failed =
                        IF ToggleTruthy(work_order.outputs.full_video) THEN 1 ELSE 0]
            /\ pc' = "split_commit"
    /\ UNCHANGED <<segments, files, result, work_order, job, queued,
                   edlVars, tjVars, vttVars, pebVars, fnVars, xmlVars>>

\* Lines 417-438: the manifest (no artifact record was made) and the commit
\* of the results, the status and the counters.
VsCommit ==
    /\ pc = "split_commit"
    /\ job' = [job EXCEPT
                 !.status = IF task.segments_failed = 0 THEN "completed" ELSE "failed",
                 !.completed_at = UtcNow,
                 !.manifest = "manifest",
                 !.segments_processed = task.segments_processed,
                 !.segments_successful = task.segments_successful,
                 !.segments_failed = task.segments_failed]
    /\ pc' = "split_done"
    /\ UNCHANGED <<segments, files, result, work_order, queued, task,
                   edlVars, tjVars, vttVars, pebVars, fnVars, xmlVars>>

\* Lines 443-459: the handler of the task marks the loaded job FAILED; the
\* counters of the row are not written.
VsExcept ==
    /\ pc = "split_except"
    /\ job' = [job EXCEPT !.status = "failed", !.error_message = task.exc,
                          !.completed_at = UtcNow]
    /\ pc' = "split_done"
    /\ UNCHANGED <<segments, files, result, work_order, queued, task,
                   edlVars, tjVars, vttVars, pebVars, fnVars, xmlVars>>

VsInit ==
    /\ pc = "create_video_split"
    /\ \E toggle \in [SplitKinds -> Toggles], event_ids \in {<<>>, <<"event-001">>} :
         work_order = [outputs |-> toggle, inputs |-> [event_ids |-> event_ids]]
    /\ job = NoJob
    /\ queued = <<>>
    /\ task = None
    /\ segments = <<>>
    /\ files = NoFiles
    /\ result = NoResult
    /\ EdlIdle /\ TjIdle /\ VttIdle /\ PebIdle /\ FnIdle /\ XmlIdle

VsNext == create_video_split \/ VsStart \/ VsProcess \/ VsCommit \/ VsExcept

SpecVideoSplit == VsInit /\ [][VsNext]_vars

----------------------------------------------------------------------------
(* The instructions file of one export id: ExportService.update_llm_prompt
   and ExportService.get_llm_prompt (services/export_service.py) and the LLM
   instructions section of process_export_background (background/tasks.py)
   with ArtifactGenerator.generate_llm_instructions.  None of the three
   awaits between opening the file and closing it, so each runs as one step
   of the event loop; they are taken in every order. *)

\* EXPORT_BASE_PATH/<export id>/sdna_ai_spark_llm_instructions.md: the path
\* update_llm_prompt and get_llm_prompt build, and export_dir / filename of
\* the generator, for the same id.
LlmPromptFilePath == "sdna_ai_spark_llm_instructions.md"

\* content.strip() of generate_llm_instructions: the fixed template.
LlmInstructionsTemplate == "You are provided with the following files: ..."

\* The prompt of UpdateLLmPrompt: a string of at least one character.
Prompts == {"prompt A", "prompt B"}

\* open(path, "w") followed by f.write(text): the file holds the text, or
\* the open fails and the file is as it was, or the open has truncated the
\* file and the write fails.
WriteOutcomes == {"written", "open_failed", "write_failed"}
OpenForWriting(fs, path, text, outcome) ==
    IF outcome = "written" THEN WriteFile(fs, path, text)
    ELSE IF outcome = "write_failed" THEN WriteFile(fs, path, "")
    ELSE fs

Finished(op) == \E k \in 1..Len(calls) : calls[k].op = op

\* update_llm_prompt: writes the prompt; the response models require
\* spark_id and are built with export_id, so the call ends in the
\* ValidationError of the except branch's response.
update_llm_prompt(prompt) ==
    /\ pc = "prompt"
    /\ ~Finished("update_llm_prompt")
    /\ \E outcome \in WriteOutcomes :
         /\ files' = OpenForWriting(files, LlmPromptFilePath, prompt, outcome)
         /\ calls' = Append(calls, [op |-> "update_llm_prompt", text |-> prompt,
                                    outcome |-> outcome])
    /\ result' = Raised("ValidationError")
    /\ UNCHANGED <<pc, segments, outputs, transcript_data, fmt_pos, artifacts,
                   error_msg, edlVars, tjVars, vttVars, fnVars, xmlVars, jobVars>>

\* get_llm_prompt: creates the file empty when it does not exist.
get_llm_prompt ==
    /\ pc = "prompt"
    /\ ~Finished("get_llm_prompt")
    /\ IF LlmPromptFilePath \in DOMAIN files
       THEN /\ files' = files
            /\ calls' = Append(calls, [op |-> "get_llm_prompt", text |-> "",
                                       outcome |-> "exists"])
       ELSE \E outcome \in WriteOutcomes :
              /\ files' = OpenForWriting(files, LlmPromptFilePath, "", outcome)
              /\ calls' = Append(calls, [op |-> "get_llm_prompt", text |-> "",
                                         outcome |-> outcome])
    /\ result' = Raised("ValidationError")
    /\ UNCHANGED <<pc, segments, outputs, transcript_data, fmt_pos, artifacts,
                   error_msg, edlVars, tjVars, vttVars, fnVars, xmlVars, jobVars>>

\* The LLM instructions section of the task, entered with the work order of
\* the loaded job: generate_llm_instructions opens the file for writing and
\* writes the template, whatever the file holds.
LlmInstructionsSection ==
    /\ pc = "prompt"
    /\ ~Finished("process_export_background")
    /\ IF work_order.user_inputs.llm_instructions
       THEN \E outcome \in WriteOutcomes :
              LET r == generate_text("llm_instructions", outcome # "written")
              IN  /\ files' = OpenForWriting(files, LlmPromptFilePath,
                                             LlmInstructionsTemplate, outcome)
                  /\ calls' = Append(calls, [op |-> "process_export_background",
                                             text |-> LlmInstructionsTemplate,
                                             outcome |-> outcome])
                  /\ error_msg' = AppendIfFailed(error_msg, r.status_msg)
                  /\ artifacts' = Append(artifacts,
                                     create_artifact_record(r.filepath, "llm_instruct", "md"))
       ELSE /\ calls' = Append(calls, [op |-> "process_export_background",
                                       text |-> "", outcome |-> "skipped"])
            /\ UNCHANGED <<files, error_msg, artifacts>>
    /\ UNCHANGED <<pc, segments, result, outputs, transcript_data, fmt_pos,
                   edlVars, tjVars, vttVars, fnVars, xmlVars, jobVars>>

PromptInit ==
    /\ pc = "prompt"
    /\ segments = <<>>
    /\ files = NoFiles
    /\ result = NoResult
    /\ outputs = None /\ transcript_data = None /\ fmt_pos = 0
    /\ artifacts = <<>> /\ error_msg = <<>> /\ calls = <<>>
    /\ \E flag \in BOOLEAN : work_order = [user_inputs |-> [llm_instructions |-> flag]]
    /\ job = NoJob /\ queued = <<>> /\ task = None
    /\ EdlIdle /\ TjIdle /\ VttIdle /\ FnIdle /\ XmlIdle

PromptNext ==
    \/ \E prompt \in Prompts : update_llm_prompt(prompt)
    \/ get_llm_prompt
    \/ LlmInstructionsSection

SpecPrompt == PromptInit /\ [][PromptNext]_vars

----------------------------------------------------------------------------
(* Properties of the EDL assembly (SpecEdl) *)

\* Sum of (end - start) over the first n records of segs.
RECURSIVE SumOfDurations(_, _)
SumOfDurations(segs, n) ==
    IF n = 0 THEN 0
    ELSE SumOfDurations(segs, n - 1) + (segs[n].end - segs[n].start)

EdlDurationsAre(segs, d) ==
    /\ Len(segs) = Len(d)
    /\ \A k \in 1..Len(d) : segs[k].end - segs[k].start = Sec(d[k])

\* C1: the record timeline is a back-to-back concatenation in list order. The
\* record-in of edit k is the timecode of the sum of the durations of edits
\* 1..k-1 (0 for the first edit), its record-out is the timecode of that sum
\* plus its own duration and is the record-in of edit k+1, whatever the
\* records' absolute start times; durations [2,3,1] give record-ins
\* 00:00:00:00, 00:00:02:00, 00:00:05:00 at 25 fps.
C1_RecordTimelineBackToBack ==
    /\ \A k \in 1..Len(edl_lines) :
         /\ edl_lines[k].record_in =
                seconds_to_timecode(SumOfDurations(segments, k - 1), FPS)
         /\ edl_lines[k].record_out =
                seconds_to_timecode(SumOfDurations(segments, k - 1)
                                      + (segments[k].end - segments[k].start), FPS)
         /\ k < Len(edl_lines) => edl_lines[k].record_out = edl_lines[k + 1].record_in
    /\ (Len(edl_lines) >= 1) => edl_lines[1].record_in = "00:00:00:00"
    /\ (pc = "edl_done" /\ EdlDurationsAre(segments, <<2, 3, 1>>)) =>
         /\ edl_lines[1].record_in = "00:00:00:00"
         /\ edl_lines[2].record_in = "00:00:02:00"
         /\ edl_lines[3].record_in = "00:00:05:00"

\* Witness of C1: a finished assembly of three records of durations 2, 3, 1 s
\* whose source positions overlap and are not in timeline order.
C1_Witness ==
    /\ pc = "edl_done"
    /\ EdlDurationsAre(segments, <<2, 3, 1>>)
    /\ segments[1].start = Sec(1) /\ segments[2].start = 0 /\ segments[3].start = 0
    /\ edl_lines[3].record_in = "00:00:05:00"
    /\ edl_lines[3].record_out = "00:00:06:00"

\* C2: exactly one edit per input record, in the input order, with edit
\* indices 1..N: the k-th edit written carries index k and the id and source
\* timecodes of the k-th input record.
C2_OneEditPerRecordInInputOrder ==
    /\ Len(edl_lines) = i - 1
    /\ \A k \in 1..Len(edl_lines) :
         /\ edl_lines[k].index = k
         /\ edl_lines[k].id = segments[k].id
         /\ edl_lines[k].source_in = seconds_to_timecode(segments[k].start, FPS)
         /\ edl_lines[k].source_out = seconds_to_timecode(segments[k].end, FPS)
    /\ pc = "edl_done" =>
         /\ Len(files[EdlPath(edl_kind)]) = Len(segments)
         /\ files[EdlPath(edl_kind)] = edl_lines

\* Witness of C2: a finished assembly of three records that are not ordered by
\* start.
C2_Witness ==
    /\ pc = "edl_done"
    /\ Len(segments) = 3
    /\ segments[1].start > segments[2].start
    /\ segments[3].start > segments[2].start
    /\ Len(files[EdlPath(edl_kind)]) = 3

\* C3 as stated: for every record list the assembler accepts, the record cursor
\* never decreases from one edit to the next (each edit's record-out, the next
\* cursor value, is not before its record-in).
C3_Original == [][record_in' >= record_in]_vars

\* C3 as amended: the cursor does not decrease across an edit whose record has
\* end >= start, and that edit's record-out is not before its record-in.
C3_CursorMonotoneWhenEndNotBeforeStart ==
    [][ (pc = "edl_loop" /\ i <= Len(segments) /\ segments[i].end >= segments[i].start)
          => record_in' >= record_in ]_vars

\* Witness of C3: a finished assembly of three records with end >= start, one
\* of them of zero duration, whose cursor has advanced.
C3_Witness ==
    /\ pc = "edl_done"
    /\ Len(segments) = 3
    /\ \A k \in 1..3 : segments[k].end >= segments[k].start
    /\ \E k \in 1..3 : segments[k].end = segments[k].start
    /\ record_in > 0

----------------------------------------------------------------------------
(* Properties of generate_transcript_json (SpecTranscriptJson) *)

TjMergeRequested == is_single_segment /\ segments # <<>>

TjAllNumeric(segs) == \A k \in 1..Len(segs) : segs[k].endType = "float"

\* The values of segs that are non-empty after trimming, trimmed, in order.
RECURSIVE NonBlankTrimmed(_)
NonBlankTrimmed(segs) ==
    IF segs = <<>> THEN <<>>
    ELSE (IF PyStrip(Head(segs).eventValue) # "" THEN <<PyStrip(Head(segs).eventValue)>>
          ELSE <<>>)
         \o NonBlankTrimmed(Tail(segs))

\* C4: with the single-segment flag and a non-empty list of numeric segments
\* the generator writes exactly one segment, whose start is the least start
\* and whose end is the greatest end of the input, in every input order;
\* [{1,3,a},{2,5,b}] gives the one segment {1,5,"a b"}.
C4_MergedSegmentSpansMinToMax ==
    (pc = "tj_done" /\ TjMergeRequested /\ TjAllNumeric(segments)) =>
        /\ result = Returned(TranscriptJsonPath)
        /\ Len(files[TranscriptJsonPath]) = 1
        /\ \A k \in 1..Len(segments) :
              /\ files[TranscriptJsonPath][1].start <= segments[k].start
              /\ files[TranscriptJsonPath][1].end >= segments[k].end
        /\ \E k \in 1..Len(segments) : files[TranscriptJsonPath][1].start = segments[k].start
        /\ \E k \in 1..Len(segments) : files[TranscriptJsonPath][1].end = segments[k].end
        /\ ( /\ Len(segments) = 2
             /\ segments[1].start = Sec(1) /\ segments[1].end = Sec(3)
             /\ segments[1].eventValue = "a"
             /\ segments[2].start = Sec(2) /\ segments[2].end = Sec(5)
             /\ segments[2].eventValue = "b" )
           => /\ files[TranscriptJsonPath][1].start = Sec(1)
              /\ files[TranscriptJsonPath][1].end = Sec(5)
              /\ files[TranscriptJsonPath][1].eventValue = "a b"

\* Witness of C4: a finished merge of three segments whose least start is not
\* the first segment's and whose greatest end is not the last segment's.
C4_Witness ==
    /\ pc = "tj_done"
    /\ TjMergeRequested /\ TjAllNumeric(segments)
    /\ Len(segments) = 3
    /\ segments[1].start = Sec(2) /\ segments[2].start = Sec(1) /\ segments[3].start = Sec(1)
    /\ Len(files[TranscriptJsonPath]) = 1
    /\ files[TranscriptJsonPath][1].start = Sec(1)
    /\ files[TranscriptJsonPath][1].end = Sec(5)

\* C5 as stated: the merged text is the single-space join, in input order, of
\* the trimmed values of exactly the segments whose value is non-empty after
\* trimming; empty and whitespace-only values add neither text nor separator.
C5_MergedTextJoinsNonBlankValues ==
    (pc = "tj_done" /\ TjMergeRequested /\ result.type = "path") =>
        files[TranscriptJsonPath][1].eventValue = PyJoin(NonBlankTrimmed(segments))

\* C6 as stated: if the merge computation raises, the generator falls back to
\* the multi-segment output; the segments it writes are always defined and
\* the call returns the path of a written file.
C6_MergeErrorFallsBackToMultiSegment ==
    pc = "tj_done" =>
        /\ result = Returned(TranscriptJsonPath)
        /\ TranscriptJsonPath \in DOMAIN files
        /\ (TjMergeRequested /\ TjCompareRaises(segments)) =>
              files[TranscriptJsonPath] = TjCleanAll(segments)

----------------------------------------------------------------------------
(* Properties of generate_transcript_vtt (SpecVtt) *)

\* The time of a segment boundary in whole milliseconds, as a number.
WholeMillis(seconds) == (seconds * MillisPerSecond) \div TicksPerSecond

\* A segment that is to get a cue: text left after trimming, and an end
\* timestamp later than the start timestamp.
VttQualifies(segment) ==
    /\ PyStrip(segment.eventValue) # ""
    /\ WholeMillis(segment.end) > WholeMillis(segment.start)

\* The positions among the first n segments that are to get a cue, in order.
RECURSIVE VttQualifying(_, _)
VttQualifying(segs, n) ==
    IF n = 0 THEN <<>>
    ELSE VttQualifying(segs, n - 1) \o (IF VttQualifies(segs[n]) THEN <<n>> ELSE <<>>)

VttProcessed == IF idx.bound THEN idx.value ELSE 0

VttCues == IF TranscriptVttPath \in DOMAIN files THEN files[TranscriptVttPath] ELSE <<>>

\* C7: a cue is written for a segment exactly when its text is non-empty after
\* trimming and its end timestamp (to the millisecond) is later than its start
\* timestamp: the cues in the file are those of the qualifying segments, in
\* order, and a segment with start = end has none even with text.
C7_CueIffTextAndEndAfterStart ==
    LET want == VttQualifying(segments, VttProcessed)
    IN  /\ Len(VttCues) = Len(want)
        /\ \A k \in 1..Len(want) :
              /\ VttCues[k].text = PyStrip(segments[want[k]].eventValue)
              /\ VttCues[k].start = format_vtt_time(segments[want[k]].start)
              /\ VttCues[k].end = format_vtt_time(segments[want[k]].end)
        /\ \A n \in 1..VttProcessed :
              segments[n].start = segments[n].end =>
                 ~ \E k \in 1..Len(VttCues) :
                      VttCues[k].start = format_vtt_time(segments[n].start)
                      /\ VttCues[k].end = VttCues[k].start

\* Witness of C7: a finished file with one cue out of three segments that all
\* carry text: one has start = end, one has start and end in the same
\* millisecond.
C7_Witness ==
    /\ pc = "vtt_done"
    /\ Len(segments) = 3
    /\ \A n \in 1..3 : segments[n].eventValue = " b "
    /\ segments[1].start = segments[1].end
    /\ segments[2].start = Sec(2) + 1
    /\ segments[3].start = Sec(10) - 5
    /\ Len(VttCues) = 1
    /\ VttCues[1].start = "00:00:09.999" /\ VttCues[1].end = "00:00:10.000"

\* C8 as stated: the cue numbers are a running counter over the emitted cues:
\* the k-th cue of the file carries number k.
C8_CueNumbersCountEmittedCues ==
    \A k \in 1..Len(VttCues) : VttCues[k].number = k

----------------------------------------------------------------------------
(* Properties of the artifact section of process_export_background
   (SpecDispatch) *)

PebSectionOver == pc \in {"manifest", "except"}

Attempted(kind, fmt) ==
    \E k \in 1..Len(calls) : calls[k].kind = kind /\ calls[k].fmt = fmt

InErrorList(msg) == \E k \in 1..Len(error_msg) : error_msg[k] = msg

C10_Supports(kind, fmt) ==
    \/ kind = "transcript" /\ fmt \in {"json", "srt", "vtt", "fcpxml"}
    \/ kind \in {"events", "comments"} /\ fmt \in {"json", "csv", "fcpxml", "edl"}

Contains(text, part) ==
    \E k \in 1..(Len(text) - Len(part) + 1) : SubSeq(text, k, k + Len(part) - 1) = part

UnsupportedCall(c) == c.kind \in DispatchKinds /\ ~C10_Supports(c.kind, c.fmt)

\* C10: for transcript, events and comments, a dispatch with a format outside
\* the kind's supported set returns (it does not raise) a null path and a
\* failure message that contains the format identifier.
C10_UnsupportedFormatReturnsNullPathAndMessage ==
    \A k \in 1..Len(calls) :
       UnsupportedCall(calls[k]) =>
          /\ calls[k].outcome.type = "return"
          /\ calls[k].outcome.filepath = None
          /\ calls[k].outcome.status_msg # "Success"
          /\ Contains(calls[k].outcome.status_msg, calls[k].fmt)

\* Witness of C10: a finished section in which each of the three kinds was
\* asked for a format it does not support, and for json after it.
C10_Witness ==
    /\ pc = "manifest"
    /\ \A kind \in DispatchKinds :
          \E k \in 1..Len(calls) :
             /\ calls[k].kind = kind /\ UnsupportedCall(calls[k])
             /\ k < Len(calls) /\ calls[k + 1].kind = kind /\ calls[k + 1].fmt = "json"

----------------------------------------------------------------------------
(* Properties of the timecode helpers (SpecTimecode) *)

\* The seconds bucket and the frame a timecode HH:MM:SS:FF parses back to.
ParsedSeconds(tc) ==
    LET f == SplitOn(tc, ":", "")
    IN  ParseDigits(f[1], 0) * 3600 + ParseDigits(f[2], 0) * 60 + ParseDigits(f[3], 0)
ParsedFrames(tc) == ParseDigits(SplitOn(tc, ":", "")[4], 0)

\* The whole part of frac * fps, frac in units of 0.1 microsecond.
FractionTimesFps ==
    (args.frac \div 100) * args.fps100 + ((args.frac % 100) * args.fps100) \div 100

\* C11 as stated: for seconds in [0, 86399] and fps in {24, 25, 30, 29.97}
\* the timecode parses back to floor(seconds), and its frame field is the
\* fraction times fps truncated, below fps.
C11_TimecodeRoundTripsToSecondsBucket ==
    pc = "tc_done" =>
        /\ ParsedSeconds(result.value) = args.whole
        /\ ParsedFrames(result.value) * FineTicksPerSecond <= FractionTimesFps
        /\ FractionTimesFps < (ParsedFrames(result.value) + 1) * FineTicksPerSecond
        /\ ParsedFrames(result.value) * 100 < args.fps100

----------------------------------------------------------------------------
(* Properties of the timestamp formatters (SpecTimestamp) *)

\* text with every character old replaced by new.
RECURSIVE ReplaceChar(_, _, _)
ReplaceChar(text, old, new) ==
    IF text = "" THEN ""
    ELSE (IF Head(text) = old THEN new ELSE Head(text)) \o ReplaceChar(Tail(text), old, new)

\* The seconds of the call in whole milliseconds, the rest dropped.
TsMillis == args.seconds \div (TicksPerSecond \div MillisPerSecond)

\* C12: for non-negative seconds _format_srt_time gives HH:MM:SS,mmm with
\* HH, MM, SS and mmm the floored hours, minutes, seconds and milliseconds
\* (truncated, not rounded), in two, two, two and three digits, and
\* _format_vtt_time gives the same with '.' for ','; 3661.25 gives
\* "01:01:01,250" and "01:01:01.250".
C12_TimestampIsFlooredDecomposition ==
    pc = "ts_done" =>
        LET srt == IF fn = "_format_srt_time" THEN result.value
                   ELSE ReplaceChar(result.value, ".", ",")
            hms == SplitOn(srt, ":", "")
            sm == SplitOn(hms[3], ",", "")
        IN  /\ Len(hms) = 3 /\ Len(sm) = 2
            /\ Len(hms[1]) >= 2 /\ Len(hms[2]) = 2 /\ Len(sm[1]) = 2 /\ Len(sm[2]) = 3
            /\ ParseDigits(hms[1], 0) = TsMillis \div 3600000
            /\ ParseDigits(hms[2], 0) = (TsMillis % 3600000) \div 60000
            /\ ParseDigits(sm[1], 0) = (TsMillis % 60000) \div 1000
            /\ ParseDigits(sm[2], 0) = TsMillis % 1000
            /\ fn = "_format_vtt_time" =>
                  /\ result.value = ReplaceChar(format_srt_time(args.seconds), ",", ".")
                  /\ ~ Contains(result.value, ",")
            /\ args.seconds = Sec(3661) + 2500 =>
                  result.value = IF fn = "_format_srt_time" THEN "01:01:01,250"
                                 ELSE "01:01:01.250"

\* Witness of C12: the SRT timestamp of 59.9999 s, whose milliseconds are
\* cut to 999 and not rounded up into the next minute.
C12_Witness ==
    /\ pc = "ts_done"
    /\ fn = "_format_srt_time"
    /\ args.seconds = Sec(59) + 9999
    /\ result.value = "00:00:59,999"

----------------------------------------------------------------------------
(* Properties of the XML builders (SpecXml) and of _fps_to_frame_duration
   (SpecFrameDuration) *)

XmlWritten(kind) ==
    /\ pc = "xml_done" /\ xml_kind = kind
    /\ result = Returned(XmlPath(kind))
    /\ XmlPath(kind) \in DOMAIN files

\* frame is within half a frame of seconds * fps.
WithinHalfFrame(frame, seconds, fps) ==
    /\ 2 * (frame * TicksPerSecond - seconds * fps) <= TicksPerSecond
    /\ 2 * (seconds * fps - frame * TicksPerSecond) <= TicksPerSecond

\* frame is seconds * fps cut to a whole frame of the second.
IsTruncatedFrame(frame, seconds, fps) ==
    /\ frame * TicksPerSecond <= (seconds % TicksPerSecond) * fps
    /\ (seconds % TicksPerSecond) * fps < (frame + 1) * TicksPerSecond

\* C13: the in and out frame of every XMEML marker is seconds * fps rounded
\* to the nearest frame, at most half a frame from the exact value, one
\* marker per segment, while the display timecode of the same instant
\* carries the truncated frame.
C13_MarkerFramesAreRounded ==
    XmlWritten("xmeml") =>
        LET doc == files[XmlPath("xmeml")]
        IN  /\ Len(doc.markers) = Len(segments)
            /\ \A k \in 1..Len(segments) :
                  /\ WithinHalfFrame(doc.markers[k].in, segments[k].start, doc.timebase)
                  /\ WithinHalfFrame(doc.markers[k].out, segments[k].end, doc.timebase)
                  /\ IsTruncatedFrame(
                        ParsedFrames(seconds_to_timecode(segments[k].start, doc.timebase)),
                        segments[k].start, doc.timebase)

\* Witness of C13: a written XMEML at 25 fps with a marker from 0.06 s
\* (1.5 frames): marker frame 2, timecode frame 1.
C13_Witness ==
    /\ XmlWritten("xmeml")
    /\ files[XmlPath("xmeml")].timebase = 25
    /\ Len(segments) >= 1
    /\ segments[1].start = Millis(60)
    /\ files[XmlPath("xmeml")].markers[1].in = 2
    /\ seconds_to_timecode(segments[1].start, 25) = "00:00:00:01"

\* C14 as stated: _fps_to_frame_duration gives "<den>/<num>s" for "num/den"
\* and also takes an integer string such as "25", giving a duration string
\* without raising.
C14_FrameDurationToleratesIntegerString ==
    pc = "fd_done" =>
        /\ result.type = "value"
        /\ LET parts == SplitOn(args.fps, "/", "")
           IN  Len(parts) = 2 => result.value = parts[2] \o "/" \o parts[1] \o "s"
        /\ args.fps = "30000/1001" => result.value = "1001/30000s"

\* The frames the claim gives the clip: of the probed duration when the
\* file the segments reference is on disk, else of the greatest end, else of
\* one second.
C15_ExpectedFrames ==
    IF segments # <<>> /\ media.source_exists
    THEN PyInt(media.meta.duration * XmlProbedFps(media.meta.fps), TicksPerSecond)
    ELSE IF segments # <<>> THEN PyInt(MaxEnd(segments) * 25, TicksPerSecond)
    ELSE 25

\* C15 as stated: the XMEML clip duration comes from the probe when the
\* source file referenced by the segments exists on disk, else from the
\* greatest end of the segments, else is one second; the sequence, the video
\* clip and both audio clips carry that one value.
C15_DurationFromReferencedFileElseMaxEnd ==
    (XmlWritten("xmeml") /\ media.probe = "ok") =>
        LET doc == files[XmlPath("xmeml")]
        IN  /\ doc.sequence_duration = C15_ExpectedFrames
            /\ doc.video_clip_duration = doc.sequence_duration
            /\ doc.audio_clip_durations = <<doc.sequence_duration, doc.sequence_duration>>

\* C16 as stated: when the referenced media file is missing, or is there but
\* the probe cannot read it, the builder still produces the artifact, with
\* the default frame rate and resolution.
C16_ProbeFailureFallsBackToDefaults ==
    (pc = "xml_done" /\ (~media.source_exists \/ media.probe = "fails")) =>
        /\ result = Returned(XmlPath(xml_kind))
        /\ XmlPath(xml_kind) \in DOMAIN files
        /\ files[XmlPath(xml_kind)].width = "1920"
        /\ files[XmlPath(xml_kind)].height = "1080"
        /\ xml_kind = "xmeml" => files[XmlPath(xml_kind)].timebase = 25
        /\ xml_kind = "fcpxml" => files[XmlPath(xml_kind)].frame_duration = "1/25s"

----------------------------------------------------------------------------
(* More properties of generate_transcript_json (SpecTranscriptJson) *)

\* C17: without the merge flag every input segment is written, in input
\* order, without its fullPath field and with every other field present and
\* unchanged; as many segments are written as were given.
C17_PassThroughStripsOnlyFullPath ==
    (pc = "tj_done" /\ ~is_single_segment) =>
        /\ result = Returned(TranscriptJsonPath)
        /\ Len(files[TranscriptJsonPath]) = Len(segments)
        /\ \A k \in 1..Len(segments) :
              /\ DOMAIN files[TranscriptJsonPath][k] = (DOMAIN segments[k]) \ {"fullPath"}
              /\ \A f \in DOMAIN files[TranscriptJsonPath][k] :
                    files[TranscriptJsonPath][k][f] = segments[k][f]

\* Witness of C17: a finished call without the flag on three segments that
\* carry a fullPath, with different values in input order.
C17_Witness ==
    /\ pc = "tj_done" /\ ~is_single_segment
    /\ Len(segments) = 3
    /\ \A k \in 1..3 : "fullPath" \in DOMAIN segments[k]
    /\ segments[1].eventValue = "b" /\ segments[2].eventValue = "" /\ segments[3].eventValue = "a"
    /\ Len(files[TranscriptJsonPath]) = 3
    /\ files[TranscriptJsonPath][1].eventValue = "b"

----------------------------------------------------------------------------
(* Properties of generator calls in sequence (SpecGenerators) and of the
   value the EDL generators return (SpecEdl) *)

\* C18: no step of any generator changes the caller's segment list or a
\* mapping in it (its fullPath included): after any sequence of generator
\* calls on the same input the list is what it was before them.
C18_GeneratorsNeverMutateInput ==
    [][segments' = segments]_vars

\* Witness of C18: the pass-through JSON, the VTT and an EDL have all been
\* written from the same three segments, which still carry their fullPath.
C18_Witness ==
    /\ pc = "edl_done"
    /\ Len(segments) = 3
    /\ \A k \in 1..3 : segments[k].fullPath = "/media/clip.mp4"
    /\ TranscriptJsonPath \in DOMAIN files
    /\ Len(files[TranscriptJsonPath]) = 3
    /\ \A k \in 1..3 : "fullPath" \notin DOMAIN files[TranscriptJsonPath][k]
    /\ TranscriptVttPath \in DOMAIN files
    /\ EdlPath("events") \in DOMAIN files

\* C20 as stated: a generator that completes returns the path of the file
\* it wrote, never the content; this includes both EDL generators.
C20_GeneratorReturnsPathOfWrittenFile ==
    pc = "edl_done" =>
        /\ result = Returned(EdlPath(edl_kind))
        /\ EdlPath(edl_kind) \in DOMAIN files

----------------------------------------------------------------------------
(* Properties of the CSV builders (SpecCsv) *)

\* The column names of the two CSV files.
C19_Columns ==
    IF fn = "generate_events_csv"
    THEN <<"id", "sdnaEventType", "eventValue", "start", "end">>
    ELSE <<"id", "sdnaEventType", "eventValue", "start", "end", "source">>

\* C19: the CSV builders write the fixed header and one row per input
\* record, in order; a row has one cell per header, empty where the record
\* lacks the field, and nothing for a field that is no header; the call
\* returns without raising.
C19_OneRowPerRecordUnderFixedHeader ==
    pc = "csv_done" =>
        /\ result = Returned(CsvPath(fn))
        /\ Len(files[CsvPath(fn)]) = Len(segments) + 1
        /\ files[CsvPath(fn)][1] = C19_Columns
        /\ \A k \in 1..Len(segments) :
              LET row == files[CsvPath(fn)][k + 1]
              IN  /\ Len(row) = Len(C19_Columns)
                  /\ \A j \in 1..Len(C19_Columns) :
                        IF C19_Columns[j] \in DOMAIN segments[k]
                        THEN row[j] = (IF C19_Columns[j] \in {"start", "end"}
                                       THEN ToString(segments[k][C19_Columns[j]])
                                       ELSE segments[k][C19_Columns[j]])
                        ELSE row[j] = ""

\* Witness of C19: a finished events CSV whose second record has no end and
\* whose third has fields that are no header: the end cell of row two is
\* empty, row three has the five cells.
C19_Witness ==
    /\ pc = "csv_done"
    /\ fn = "generate_events_csv"
    /\ Len(segments) = 3
    /\ "end" \notin DOMAIN segments[2] /\ "start" \in DOMAIN segments[2]
    /\ "confidenceScore" \in DOMAIN segments[3]
    /\ files[CsvPath(fn)][3] = <<"e2", "ocr", "a, b", "2", "">>
    /\ files[CsvPath(fn)][4] = <<"e4", "label", "dog", "0", "2">>

----------------------------------------------------------------------------
(* Properties of the destinations (SpecConversions) *)

\* C21: within one export job the conversions of distinct (artifact kind,
\* format) pairs write to distinct destination paths: in whatever order they
\* run, no conversion writes the file of another, so every file of the
\* export directory still holds the document of the conversion it belongs to.
C21_DistinctConversionsWriteDistinctFiles ==
    /\ \A k \in 1..Len(calls) :
         LET path == DestinationPath(calls[k][1], calls[k][2])
         IN  path \in DOMAIN files /\ files[path] = calls[k]
    /\ Cardinality(DOMAIN files) = Len(calls)

\* Three conversions have run: the JSON of the events before the JSON of the
\* transcript, and the EDL of the selects before, between or after them.
C21_Witness ==
    /\ Len(calls) = MaxConversions
    /\ \E a, b \in 1..Len(calls) :
         /\ a < b
         /\ calls[a] = <<"events", "json">>
         /\ calls[b] = <<"transcript", "json">>
    /\ \E k \in 1..Len(calls) : calls[k] = <<"selects", "edl">>

----------------------------------------------------------------------------
(* Properties of the creation of an import job (SpecCreateImport) *)

\* The highlight has one of the three faults the validation looks for.
InvalidHighlight(h) ==
    h.start < 0 \/ h.end <= h.start \/ h.confidenceScore = 0

ImportBackgroundTasks == Len(SelectSeq(queued, LAMBDA t : t = "process_import_background_for_llm"))

----------------------------------------------------------------------------
(* Properties of the export job (SpecExport) *)

\* C23: an export job for which process_export_background was started has
\* left the pending and processing statuses when the task has returned: it is
\* COMPLETED with its manifest and export_path saved, or FAILED with its
\* error_message set; and the task never lets an exception out.
C23_StartedExportJobEndsCompletedOrFailed ==
    pc = "returned" =>
      /\ ~task.propagated
      /\ \/ job.status = "completed" /\ job.manifest # None /\ job.export_path # None
         \/ job.status = "failed" /\ job.error_message # None

\* The transcript formats of the work order name "edl".
TranscriptRequestsEdl ==
    \E k \in 1..Len(work_order.outputs.transcript) : work_order.outputs.transcript[k] = "edl"

\* C30: an export work order that requests the format "edl" for the
\* transcript is rejected at creation: create_export_job returns no job, no
\* row of export_jobs is stored, and the route queues no background task.
C30_TranscriptEdlIsRejectedAtCreation ==
    TranscriptRequestsEdl =>
      /\ job = NoJob
      /\ queued = <<>>
      /\ pc = "responded" => result.returned = NoResult /\ result.value = 500

\* The work order asking for the transcript as srt and edl has been answered.
C30_Witness ==
    /\ pc = "responded"
    /\ work_order.outputs.transcript = <<"srt", "edl">>
    /\ work_order.outputs.events = <<"edl">>
    /\ job = NoJob
    /\ result.returned = NoResult
    /\ queued = <<>>

----------------------------------------------------------------------------
(* Properties of the comments dispatch (SpecDispatch) *)

\* C24: for each comments format among json, csv, fcpxml and edl,
\* _generate_comments_artifact calls the generator of that format and returns
\* (path, "Success") unless writing the file failed, so a work order that
\* requests comments gets a comments artifact.
C24_CommentsFormatYieldsArtifact ==
    \A k \in 1..Len(calls) :
      (/\ calls[k].kind = "comments"
       /\ calls[k].fmt \in {"json", "csv", "fcpxml", "edl"}
       /\ calls[k].outcome.status_msg # GenerationFailedMessage("comments", calls[k].fmt, "OSError"))
      => /\ calls[k].outcome.filepath # None
         /\ calls[k].outcome.status_msg = "Success"

----------------------------------------------------------------------------
(* Properties of the import task (SpecImport) *)

\* C25: when an import job is COMPLETED, items_processed is the sum of
\* items_created, items_updated and items_skipped, and it is the number of
\* highlights stored for the job: over the fetches of 1000 rows and the
\* POSTs of 500 events every highlight is counted once, as created or as
\* skipped.
C25_CompletedImportCountsEveryHighlightOnce ==
    job.status = "completed" =>
      /\ job.items_processed = job.items_created + job.items_updated + job.items_skipped
      /\ job.items_processed = job.highlights
      /\ job.items_updated = 0

\* A job of 2001 highlights is COMPLETED after three fetches and five POSTs,
\* one of which (500 events) was refused.
C25_Witness ==
    /\ job.status = "completed"
    /\ job.highlights = 2001
    /\ job.items_created = 1501
    /\ job.items_skipped = 500
    /\ task.offset = 3 * BATCH_SIZE

\* C26: a COMPLETED import job has no error_message only if every batch was
\* accepted: when a batch failed and its highlights were counted as
\* skipped, the stored error_message is not null.
C26_SkippedBatchLeavesErrorMessage ==
    (job.status = "completed" /\ job.items_skipped > 0) => job.error_message # None

----------------------------------------------------------------------------
(* Properties of the video split task (SpecVideoSplit) *)

\* The toggle of the kind is given and has is_enabled true.
SplitEnabled(kind) ==
    work_order.outputs[kind] # Absent /\ work_order.outputs[kind].is_enabled

\* C29: when process_video_split_task has ended, an output kind (full video,
\* individual segments, merged segment) was attempted only if its toggle has
\* is_enabled true; when no kind is enabled nothing was counted as
\* successful or failed; and the job is COMPLETED exactly when the stored
\* segments_failed is 0.
C29_OnlyEnabledKindsAreAttempted ==
    pc = "split_done" =>
      /\ \A kind \in task.attempted : SplitEnabled(kind)
      /\ (\A kind \in SplitKinds : ~SplitEnabled(kind)) =>
            job.segments_successful = 0 /\ job.segments_failed = 0
      /\ job.status = "completed" <=> job.segments_failed = 0

----------------------------------------------------------------------------
(* Properties of the timestamps of a job row (SpecCreateImport, and the same
   formula under SpecImport, SpecExport and SpecVideoSplit) *)

\* C27: in every reachable state a stored job whose status is completed or
\* failed has completed_at set, and a stored job whose status is pending has
\* neither started_at nor completed_at set.
C27_FinishedJobsHaveCompletedAt ==
    job # NoJob =>
      /\ job.status \in {"completed", "failed"} => job.completed_at # None
      /\ job.status = "pending" => job.started_at = None /\ job.completed_at = None

----------------------------------------------------------------------------
(* Properties of the instructions file (SpecPrompt) *)

AllFinished ==
    /\ Finished("update_llm_prompt")
    /\ Finished("get_llm_prompt")
    /\ Finished("process_export_background")

====
